---- MODULE Spec2Model ----
(***************************************************************************)
(* MixAnalyzer backend: job orchestration and progress relay.              *)
(*                                                                         *)
(* The model follows backend/src/main.rs (handlers, the two pipelines,     *)
(* the two SSE status streams), backend/src/stem_separation.rs (the worker *)
(* thread, the stderr reader thread and the mpsc progress channel) and     *)
(* backend/src/audio_analysis.rs (the analysis worker).                    *)
(*                                                                         *)
(* Text is a sequence of strings: a line of the worker's standard error is *)
(* a sequence of one-character strings, a formatted message is the         *)
(* concatenation of its pieces (format! becomes \o).  Option<T> is <<>>    *)
(* for None and <<x>> for Some(x).                                         *)
(***************************************************************************)
EXTENDS Integers, Sequences, FiniteSets, TLC

\* ------------------------------------------------------------------ bounds

\* Submissions the clients make (calls of the three submitting handlers).
MaxRequests == 1
\* Status-stream subscriptions the clients open.
MaxSubscribers == 1
\* Lines one worker process writes to its standard error.
MaxLines == 1
\* Lines of the standard-error text the reader harness is fed.
MaxFeed == 2
\* Consecutive samples of one stream that find the record unchanged.
MaxQuiet == 1
\* Lines a worker process writes to its standard error in one burst.
MaxBurst == 2

\* ------------------------------------------------------------ example text

\* "PROGRESS:42:Halfway done"
LineHalfway == <<"P", "R", "O", "G", "R", "E", "S", "S", ":", "4", "2", ":", "H", "a", "l", "f", "w", "a", "y", " ", "d", "o", "n", "e">>
\* "WARNING: low disk space"
LineWarning == <<"W", "A", "R", "N", "I", "N", "G", ":", " ", "l", "o", "w", " ", "d", "i", "s", "k", " ", "s", "p", "a", "c", "e">>
\* "PROGRESS:0:Load"
LineZero == <<"P", "R", "O", "G", "R", "E", "S", "S", ":", "0", ":", "L", "o", "a", "d">>
\* "PROGRESS:100:Done"
LineHundred == <<"P", "R", "O", "G", "R", "E", "S", "S", ":", "1", "0", "0", ":", "D", "o", "n", "e">>
\* "PROGRESS:150:Over"
LineOver == <<"P", "R", "O", "G", "R", "E", "S", "S", ":", "1", "5", "0", ":", "O", "v", "e", "r">>
\* "PROGRESS:7:a:b"
LineColonStage == <<"P", "R", "O", "G", "R", "E", "S", "S", ":", "7", ":", "a", ":", "b">>

\* The standard-error lines the reader harness draws from.
FeedLines ==
    { LineHalfway, LineWarning, LineZero, LineHundred, LineOver, LineColonStage,
      \* "PROGRESS:255:Max"
      <<"P", "R", "O", "G", "R", "E", "S", "S", ":", "2", "5", "5", ":", "M", "a", "x">>,
      \* "PROGRESS:256:Big"
      <<"P", "R", "O", "G", "R", "E", "S", "S", ":", "2", "5", "6", ":", "B", "i", "g">>,
      \* "PROGRESS:abc:Text"
      <<"P", "R", "O", "G", "R", "E", "S", "S", ":", "a", "b", "c", ":", "T", "e", "x", "t">>,
      \* "PROGRESS:42"
      <<"P", "R", "O", "G", "R", "E", "S", "S", ":", "4", "2">>,
      \* "PROGRESS::Text"
      <<"P", "R", "O", "G", "R", "E", "S", "S", ":", ":", "T", "e", "x", "t">>,
      \* "PROGRESS:-1:Neg"
      <<"P", "R", "O", "G", "R", "E", "S", "S", ":", "-", "1", ":", "N", "e", "g">>,
      \* "INFO:42:Text"
      <<"I", "N", "F", "O", ":", "4", "2", ":", "T", "e", "x", "t">>,
      \* "progress:42:Text"
      <<"p", "r", "o", "g", "r", "e", "s", "s", ":", "4", "2", ":", "T", "e", "x", "t">>,
      \* "PROGRESS"
      <<"P", "R", "O", "G", "R", "E", "S", "S">>,
      \* ""
      <<>> }

\* The standard-error lines a worker process of the system model writes.
WorkerLines == { LineHalfway, LineWarning, LineOver }

\* --------------------------------------------------------- text functions

None == <<>>
Some(x) == <<x>>

\* str::starts_with
StartsWith(s, prefix) ==
    /\ Len(s) >= Len(prefix)
    /\ SubSeq(s, 1, Len(prefix)) = prefix

\* Position of the first ch in s at or after position from; 0 when there is none.
RECURSIVE IndexFrom(_, _, _)
IndexFrom(s, ch, from) ==
    IF from > Len(s) THEN 0
    ELSE IF s[from] = ch THEN from
    ELSE IndexFrom(s, ch, from + 1)

\* line.splitn(3, ':').collect(): at most three parts, cut at the first two colons.
SplitN3(s) ==
    LET i == IndexFrom(s, ":", 1) IN
    IF i = 0 THEN << s >>
    ELSE LET j == IndexFrom(s, ":", i + 1) IN
         IF j = 0 THEN << SubSeq(s, 1, i - 1), SubSeq(s, i + 1, Len(s)) >>
         ELSE << SubSeq(s, 1, i - 1), SubSeq(s, i + 1, j - 1), SubSeq(s, j + 1, Len(s)) >>

Digits == << "0", "1", "2", "3", "4", "5", "6", "7", "8", "9" >>
IsDigit(c) == \E d \in 1..10 : Digits[d] = c
DigitVal(c) == (CHOOSE d \in 1..10 : Digits[d] = c) - 1

U8Max == 255
ParseError == 0 - 1

\* The checked accumulation of u8::from_str over the digits of s: ParseError on a
\* character that is no digit and on a value above u8::MAX.
RECURSIVE ParseDigits(_, _, _)
ParseDigits(s, i, acc) ==
    IF i > Len(s) THEN acc
    ELSE IF ~IsDigit(s[i]) THEN ParseError
    ELSE LET v == acc * 10 + DigitVal(s[i]) IN
         IF v > U8Max THEN ParseError ELSE ParseDigits(s, i + 1, v)

\* str::parse::<u8>(): an optional "+", then at least one digit.
ParseU8(s) ==
    LET body == IF Len(s) > 0 /\ s[1] = "+" THEN SubSeq(s, 2, Len(s)) ELSE s IN
    IF Len(body) = 0 THEN ParseError ELSE ParseDigits(body, 1, 0)

ProgressTag == <<"P", "R", "O", "G", "R", "E", "S", "S", ":">>

StemProgress(p, stage) == [progress |-> p, stage |-> stage]

\* What the stderr reader sends for one line: <<event>> or <<>> (nothing).
ParseProgressLine(line) ==
    IF StartsWith(line, ProgressTag)
    THEN LET parts == SplitN3(line) IN
         IF Len(parts) = 3
         THEN IF ParseU8(parts[2]) # ParseError
              THEN << StemProgress(ParseU8(parts[2]), parts[3]) >>
              ELSE << >>
         ELSE << >>
    ELSE << >>

\* --------------------------------------------------------------- rescaling

U8(n) == n % 256

MixLo == 5
RefLo == 50

\* The scaling with the product taken in u8 instead of u32.
ScaleProgressU8Product(lo, p) == U8(lo + U8(U8(p * 40) \div 100))

\* lo + (progress.progress as u32 * 40 / 100) as u8: the product is taken in
\* u32, which holds it for every u8 (at most 255 * 40), the sum in u8.
ScaleProgress(lo, p) == U8(lo + U8((p * 40) \div 100))

\* ------------------------------------------------------------ job records

\* JobStatus and StemJobStatus values: tag is the enum variant, num the progress
\* of Separating, text the String of Processing / Failed / Analyzing / Separating
\* (and the AI text of Completed), payload the result of Completed.
Status(tag, num, text, payload) ==
    [tag |-> tag, num |-> num, text |-> text, payload |-> payload]

Queued == Status("Queued", 0, <<>>, <<>>)
Processing(step) == Status("Processing", 0, step, <<>>)
JobCompleted(metrics, ai_text) == Status("Completed", 0, ai_text, metrics)
Failed(msg) == Status("Failed", 0, msg, <<>>)
Separating(p, stage) == Status("Separating", p, stage, <<>>)
Analyzing(stem) == Status("Analyzing", 0, stem, <<>>)
StemCompleted(result) == Status("Completed", 0, <<>>, result)

IsTerminal(st) == st.tag \in {"Completed", "Failed"}

\* ----------------------------------------------------------- serialization

\* A JSON object is the sequence of its members <<key, text of the value>>.
Member(key, value) == << key, value >>
JsonString(s) == <<"\"">> \o s \o <<"\"">>

RECURSIVE JsonPairs(_)
JsonPairs(pairs) ==
    IF pairs = <<>> THEN <<>>
    ELSE JsonString(<<pairs[1][1]>>) \o <<":">> \o JsonString(<<pairs[1][2]>>)
         \o (IF Len(pairs) > 1 THEN <<",">> ELSE <<>>) \o JsonPairs(Tail(pairs))

\* serde_json::to_string of a JobStatus (#[serde(tag = "status", content = "data")]).
JobStatusJson(st) ==
    IF st.tag = "Queued" THEN << Member("status", <<"Queued">>) >>
    ELSE IF st.tag = "Completed"
    THEN << Member("status", <<"Completed">>),
            Member("data", <<"[{">> \o JsonPairs(st.payload) \o <<"},">>
                           \o JsonString(st.text) \o <<"]">>) >>
    ELSE << Member("status", <<st.tag>>), Member("data", JsonString(st.text)) >>

\* serde_json::to_string of a StemJobStatus.
StemJobStatusJson(st) ==
    IF st.tag = "Queued" THEN << Member("status", <<"Queued">>) >>
    ELSE IF st.tag = "Separating"
    THEN << Member("status", <<"Separating">>),
            Member("data", <<"{\"progress\":", ToString(st.num), ",\"stage\":">>
                           \o JsonString(st.text) \o <<"}">>) >>
    ELSE IF st.tag = "Analyzing"
    THEN << Member("status", <<"Analyzing">>),
            Member("data", <<"{\"stem\":">> \o JsonString(st.text) \o <<"}">>) >>
    ELSE IF st.tag = "Completed"
    THEN << Member("status", <<"Completed">>),
            Member("data", <<"{\"stems\":{">> \o JsonPairs(st.payload) \o <<"}}">>) >>
    ELSE << Member("status", <<st.tag>>), Member("data", JsonString(st.text)) >>

\* The not-found event with the message of the missing-files failure pasted in.
JobNotFoundEventCopied ==
    << Member("status", <<"Failed">>),
       Member("data", JsonString(<<"Missing mix or reference file">>)) >>

\* json!({ "status": "Failed", "data": "Job not found" }).to_string()
JobNotFoundEvent ==
    << Member("status", <<"Failed">>), Member("data", JsonString(<<"Job not found">>)) >>

\* json!({ "status": "Failed", "data": "Stem job not found" }).to_string()
StemNotFoundEvent ==
    << Member("status", <<"Failed">>), Member("data", JsonString(<<"Stem job not found">>)) >>

\* The value of a member of a JSON object; <<>> when the object has no such member.
RECURSIVE JsonField(_, _)
JsonField(json, key) ==
    IF json = <<>> THEN <<>>
    ELSE IF json[1][1] = key THEN json[1][2]
    ELSE JsonField(Tail(json), key)

\* --------------------------------------------------------- worker processes

\* What a worker process leaves behind when it ends: its exit code (None when a
\* signal killed it) and its standard output, read as JSON: raw is the text,
\* json whether it is a JSON object, and the members it carries.
Stdout(raw, json, success, stems, error, mix, reference) ==
    [raw |-> raw, json |-> json, success |-> success, stems |-> stems,
     error |-> error, mix |-> mix, reference |-> reference]

EmptyOutput == Stdout("", FALSE, None, None, None, None, None)
GarbageOutput == Stdout("Traceback", FALSE, None, None, None, None, None)

MixStems == << <<"vocals", "mix/vocals.wav">> >>
ReferenceStems == << <<"vocals", "reference/vocals.wav">> >>
StemsFor(phase) == IF phase = "mix" THEN MixStems ELSE ReferenceStems

\* {"success":true,"stems":{...},"sample_rate":44100,"error":null}
SuccessEnvelope(phase) ==
    Stdout("success envelope", TRUE, Some(TRUE), Some(StemsFor(phase)), None, None, None)
\* {"success":false,"result":null,"error":"bad input"}
FailureEnvelope ==
    Stdout("failure envelope", TRUE, Some(FALSE), None, Some(<<"bad input">>), None, None)
\* {"success":true,"stems":{...},"error":"clipped"}
SuccessWithError(phase) ==
    Stdout("success with error", TRUE, Some(TRUE), Some(StemsFor(phase)),
           Some(<<"clipped">>), None, None)

\* The standard outputs a separation worker of the model ends with.
StemOutputs(phase) ==
    { EmptyOutput, GarbageOutput, SuccessEnvelope(phase), FailureEnvelope,
      SuccessWithError(phase),
      \* {"success":true,"stems":null,"error":null}
      Stdout("success without stems", TRUE, Some(TRUE), None, None, None, None),
      \* {"success":false}
      Stdout("failure without error", TRUE, Some(FALSE), None, None, None, None),
      \* {"stems":{...}}
      Stdout("no success field", TRUE, None, Some(StemsFor(phase)), None, None, None) }

\* Exit codes a worker ends with; None stands for death by a signal.
ExitCodes == { Some(0), Some(1), None }

\* ExitStatus::success()
ExitSuccess(code) == code = Some(0)

\* format!("{:?}", output.status.code())
DebugCode(code) ==
    IF code = None THEN <<"None">> ELSE <<"Some(", ToString(code[1]), ")">>

Ok(v) == [ok |-> TRUE, val |-> v, err |-> <<>>]
Err(msg) == [ok |-> FALSE, val |-> <<>>, err |-> msg]

\* The text of the serde_json error for a standard output that is no envelope.
JsonErrorText(out) ==
    IF out.raw = "" THEN "EOF while parsing a value"
    ELSE IF ~out.json THEN "expected value"
    ELSE "missing field"

\* A standard output that is no envelope taken for a result without members.
ParseAccepted(out) == Ok(out.stems)

ParseFailure(out) ==
    Err(<<"Failed to parse JSON output: ", JsonErrorText(out), " (Output: ", out.raw, ")">>)

LaunchFailure == Err(<<"Failed to execute python script: ", "No such file or directory">>)

\* The result computed without the check of output.status.success().
SeparationResultIgnoringExit(code, out) ==
    IF ~out.json \/ out.success = None THEN ParseFailure(out)
    ELSE IF ~out.success[1]
    THEN Err(IF out.error = None THEN <<"Unknown error">> ELSE out.error[1])
    ELSE Ok(out.stems)

\* The result computed without the check of result.success.
SeparationResultIgnoringSuccess(code, out) ==
    IF ~ExitSuccess(code)
    THEN Err(<<"stem separation failed with exit code: ">> \o DebugCode(code))
    ELSE IF ~out.json \/ out.success = None THEN ParseFailure(out)
    ELSE Ok(out.stems)

\* The value the worker thread of separate_stems_with_progress returns once the
\* process has ended with (code, out).  Ok carries StemSeparationResult.stems.
SeparationResult(code, out) ==
    IF ~ExitSuccess(code)
    THEN Err(<<"stem separation failed with exit code: ">> \o DebugCode(code))
    ELSE IF ~out.json \/ out.success = None THEN ParseFailure(out)
    ELSE IF ~out.success[1]
    THEN Err(IF out.error = None THEN <<"Unknown error">> ELSE out.error[1])
    ELSE Ok(out.stems)

\* ------------------------------------------------------------------- state

VARIABLES
    uuid_next,   \* Uuid::new_v4: the identifiers issued so far are 1..uuid_next-1
    jobs,        \* AppState.jobs: HashMap<String, JobStatus>
    stem_jobs,   \* AppState.stem_jobs: HashMap<String, StemJobStatus>
    req,         \* the calls of the submitting handlers
    pa,          \* the process_analysis tasks, by job identifier
    pb,          \* the process_stem_separation tasks, by stem job identifier
    run,         \* the separate_stems_with_progress invocations, by stem job and phase
    versions,    \* the mix_versions rows of the database
    subs,        \* the status streams (job_status_stream, stem_job_status_stream)
    feed,        \* harness: the lines of standard error still to read
    fed,         \* harness: the lines read so far
    sent,        \* harness: the progress events sent so far
    shown,       \* harness: the records the relay loop wrote for them
    hphase,      \* harness: the phase the relay loop serves
    dirs,        \* the output directories on disk: <<id, phase>> is stems/<id>/<phase>
    cs           \* lock level: per task, its place in its program and the locks it holds

vars == << uuid_next, jobs, stem_jobs, req, pa, pb, run, versions, subs,
           feed, fed, sent, shown, hphase, dirs, cs >>

Requests == 1..MaxRequests
Subscribers == 1..MaxSubscribers
\* Every identifier the handlers can issue: two per submission.
AllIds == 1..(2 * MaxRequests)
\* An identifier no handler ever issues.
BogusId == 0
Phases == {"mix", "reference"}

\* HashMap::insert
Insert(map, key, value) ==
    [k \in (DOMAIN map) \cup {key} |-> IF k = key THEN value ELSE map[k]]

\* HashMap::get(..).cloned()
Get(map, key) == IF key \in DOMAIN map THEN Some(map[key]) ELSE None

EmptyMap == [k \in {} |-> Queued]

\* update_job_status: lock jobs, insert, unlock.
update_job_status(job_id, status) == jobs' = Insert(jobs, job_id, status)

\* update_stem_job_status: lock stem_jobs, insert, unlock.
update_stem_job_status(job_id, status) == stem_jobs' = Insert(stem_jobs, job_id, status)

\* ------------------------------------------------- the two store locks

\* The sections with the stem stream reading its record while it also takes
\* the jobs lock, stem_jobs first.
SectionNested(site, id, status) ==
    CASE site = "init_jobs" ->
             << <<"lock", "jobs">>, <<"insert", "jobs", id, Queued>>, <<"unlock", "jobs">> >>
      [] site = "init_stem_jobs" ->
             << <<"lock", "stem_jobs">>, <<"insert", "stem_jobs", id, Queued>>,
                <<"unlock", "stem_jobs">> >>
      [] site = "missing" ->
             << <<"lock", "jobs">>,
                <<"insert", "jobs", id, Failed(<<"Missing mix or reference file">>)>>,
                <<"lock", "stem_jobs">>,
                <<"insert", "stem_jobs", id + 1, Failed(<<"Missing files">>)>>,
                <<"unlock", "stem_jobs">>, <<"unlock", "jobs">> >>
      [] site = "update_job_status" ->
             << <<"lock", "jobs">>, <<"insert", "jobs", id, status>>, <<"unlock", "jobs">> >>
      [] site = "update_stem_job_status" ->
             << <<"lock", "stem_jobs">>, <<"insert", "stem_jobs", id, status>>,
                <<"unlock", "stem_jobs">> >>
      [] site = "job_status_stream" ->
             << <<"lock", "jobs">>, <<"get", "jobs", id>>, <<"unlock", "jobs">> >>
      [] site = "stem_job_status_stream" ->
             << <<"lock", "stem_jobs">>, <<"lock", "jobs">>, <<"get", "stem_jobs", id>>,
                <<"unlock", "jobs">>, <<"unlock", "stem_jobs">> >>

\* The statements of one critical section of main.rs, in the order they run: a
\* std::sync::Mutex is locked, the map is written or read under the guard, and
\* the guard is dropped at the end of its scope (guards of one scope drop in the
\* reverse of the order they were declared in).  id is the key, status the value.
Section(site, id, status) ==
    CASE site = "init_jobs" ->
             << <<"lock", "jobs">>, <<"insert", "jobs", id, Queued>>, <<"unlock", "jobs">> >>
      [] site = "init_stem_jobs" ->
             << <<"lock", "stem_jobs">>, <<"insert", "stem_jobs", id, Queued>>,
                <<"unlock", "stem_jobs">> >>
      [] site = "missing" ->
             << <<"lock", "jobs">>,
                <<"insert", "jobs", id, Failed(<<"Missing mix or reference file">>)>>,
                <<"lock", "stem_jobs">>,
                <<"insert", "stem_jobs", id + 1, Failed(<<"Missing files">>)>>,
                <<"unlock", "stem_jobs">>, <<"unlock", "jobs">> >>
      [] site = "update_job_status" ->
             << <<"lock", "jobs">>, <<"insert", "jobs", id, status>>, <<"unlock", "jobs">> >>
      [] site = "update_stem_job_status" ->
             << <<"lock", "stem_jobs">>, <<"insert", "stem_jobs", id, status>>,
                <<"unlock", "stem_jobs">> >>
      [] site = "job_status_stream" ->
             << <<"lock", "jobs">>, <<"get", "jobs", id>>, <<"unlock", "jobs">> >>
      [] site = "stem_job_status_stream" ->
             << <<"lock", "stem_jobs">>, <<"get", "stem_jobs", id>>, <<"unlock", "stem_jobs">> >>

\* The tasks that run against each other at the level of the locks, each the
\* sequence of its statements that concern the locks.  One client submits to
\* start_analysis_job without the files (identifiers 1 and 2); another has
\* reanalyze_version start the two pipelines (identifiers 3 and 4) and, once it
\* has the response, opens the two status streams.  <<"await">> is a point
\* where the task yields, <<"after", t, what>> the wait for task t to have
\* spawned or returned.
Programs ==
    [ start_analysis_job |->
          Section("init_jobs", 1, Queued) \o Section("init_stem_jobs", 2, Queued)
          \o << <<"await">> >> \o Section("missing", 1, Queued) \o << <<"return">> >>,
      reanalyze_version |->
          << <<"await">> >> \o Section("init_jobs", 3, Queued)
          \o Section("init_stem_jobs", 4, Queued) \o << <<"spawn">>, <<"return">> >>,
      process_analysis |->
          << <<"after", "reanalyze_version", "spawn">> >>
          \o Section("update_job_status", 3, Processing(<<"Running Essentia Analysis...">>))
          \o << <<"await">> >>
          \o Section("update_job_status", 3, Processing(<<"Consulting AI Expert...">>)),
      process_stem_separation |->
          << <<"after", "reanalyze_version", "spawn">> >>
          \o Section("update_stem_job_status", 4, Separating(0, <<"Initializing Demucs...">>))
          \o << <<"await">> >>
          \o Section("update_stem_job_status", 4,
                     Separating(5, <<"Starting mix stem separation...">>)),
      job_status_stream |->
          << <<"after", "reanalyze_version", "return">> >>
          \o Section("job_status_stream", 3, Queued) \o << <<"await">> >>
          \o Section("job_status_stream", 3, Queued),
      stem_job_status_stream |->
          << <<"after", "reanalyze_version", "return">> >>
          \o Section("stem_job_status_stream", 4, Queued) \o << <<"await">> >>
          \o Section("stem_job_status_stream", 4, Queued) ]

NoRequest == [pc |-> "idle", job_id |-> BogusId, stem_job_id |-> BogusId, version |-> 0]
NoTaskA == [pc |-> "none", project |-> FALSE, stem_job_id |-> None, metrics |-> <<>>,
            ai_text |-> <<>>, rows |-> {}]
NoTaskB == [pc |-> "none", phase |-> "mix", mix_stems |-> <<>>, left |-> ""]
NoRun == [proc |-> "none", wrote |-> <<>>, pipe |-> <<>>, chan |-> <<>>, rx |-> FALSE,
          reader |-> "none", handle |-> "none", code |-> None, out |-> EmptyOutput,
          result |-> Err(<<>>), relayed |-> <<>>, outcomes |-> <<>>, late |-> 0]
NoStream == [state |-> "idle", kind |-> "job", id |-> BogusId, last |-> <<>>,
             event |-> <<>>, before |-> <<>>, quiet |-> 0]

\* A version row an earlier run of the server left in the database.
OldVersion == [id |-> 0, stem_job_id |-> None]

InitSystem ==
    /\ uuid_next = 1
    /\ jobs = EmptyMap
    /\ stem_jobs = EmptyMap
    /\ req = [r \in Requests |-> NoRequest]
    /\ pa = [i \in AllIds |-> NoTaskA]
    /\ pb = [i \in AllIds |-> NoTaskB]
    /\ run = [i \in AllIds |-> [ph \in Phases |-> NoRun]]
    /\ versions = {OldVersion}
    /\ subs = [p \in Subscribers |-> NoStream]
    /\ dirs = {}
    /\ cs = [t \in DOMAIN Programs |-> [pc |-> 1, held |-> <<>>]]

InitHarness ==
    /\ feed = <<>>
    /\ fed = <<>>
    /\ sent = <<>>
    /\ shown = <<>>
    /\ hphase = "mix"

Init == InitSystem /\ InitHarness

harness == << feed, fed, sent, shown, hphase >>
stores == << jobs, stem_jobs >>

\* Mutex::lock: the task blocks until no task, itself included, holds the lock.
CS_Lock(t) ==
    /\ cs[t].pc <= Len(Programs[t])
    /\ LET ins == Programs[t][cs[t].pc] IN
       /\ ins[1] = "lock"
       /\ \A u \in DOMAIN Programs : \A i \in 1..Len(cs[u].held) : cs[u].held[i] # ins[2]
       /\ cs' = [cs EXCEPT ![t].pc = @ + 1, ![t].held = Append(@, ins[2])]
    /\ UNCHANGED << uuid_next, stores, req, pa, pb, run, versions, subs, harness, dirs >>

\* HashMap::insert or HashMap::get(..).cloned() through the guard.
CS_Operate(t) ==
    /\ cs[t].pc <= Len(Programs[t])
    /\ LET ins == Programs[t][cs[t].pc] IN
       /\ ins[1] \in {"insert", "get"}
       /\ \E i \in 1..Len(cs[t].held) : cs[t].held[i] = ins[2]
       /\ jobs' = IF ins[1] = "insert" /\ ins[2] = "jobs"
                  THEN Insert(jobs, ins[3], ins[4]) ELSE jobs
       /\ stem_jobs' = IF ins[1] = "insert" /\ ins[2] = "stem_jobs"
                       THEN Insert(stem_jobs, ins[3], ins[4]) ELSE stem_jobs
    /\ cs' = [cs EXCEPT ![t].pc = @ + 1]
    /\ UNCHANGED << uuid_next, req, pa, pb, run, versions, subs, harness, dirs >>

\* The guard goes out of scope: the lock is released.
CS_Unlock(t) ==
    /\ cs[t].pc <= Len(Programs[t])
    /\ LET ins == Programs[t][cs[t].pc] IN
       /\ ins[1] = "unlock"
       /\ cs' = [cs EXCEPT ![t].pc = @ + 1,
                           ![t].held = SelectSeq(@, LAMBDA l : l # ins[2])]
    /\ UNCHANGED << uuid_next, stores, req, pa, pb, run, versions, subs, harness, dirs >>

\* A statement that takes no lock: an .await, the tokio::spawn of the
\* pipelines, the return of the response, and the start of a task once the
\* task it depends on has spawned or returned.
CS_Advance(t) ==
    /\ cs[t].pc <= Len(Programs[t])
    /\ LET ins == Programs[t][cs[t].pc] IN
       \/ ins[1] \in {"await", "spawn", "return"}
       \/ /\ ins[1] = "after"
          /\ \E i \in 1..(cs[ins[2]].pc - 1) : Programs[ins[2]][i][1] = ins[3]
    /\ cs' = [cs EXCEPT ![t].pc = @ + 1]
    /\ UNCHANGED << uuid_next, stores, req, pa, pb, run, versions, subs, harness, dirs >>

\* ---------------------------------------------------------------- handlers

\* tokio::spawn(process_analysis(..)) / tokio::spawn(process_stem_separation(..))
SpawnAnalysis(job_id, project, stem_job_id) ==
    pa' = [pa EXCEPT ![job_id] =
              [NoTaskA EXCEPT !.pc = "start", !.project = project,
                              !.stem_job_id = stem_job_id]]

SpawnStemSeparation(stem_job_id) ==
    pb' = [pb EXCEPT ![stem_job_id] = [NoTaskB EXCEPT !.pc = "start"]]

\* start_analysis_job, reanalyze_version: two fresh identifiers, jobs.insert(Queued).
IssueBoth(r, next_pc) ==
    /\ req[r].pc = "idle"
    /\ req' = [req EXCEPT ![r] = [NoRequest EXCEPT !.pc = next_pc, !.job_id = uuid_next,
                                                  !.stem_job_id = uuid_next + 1]]
    /\ uuid_next' = uuid_next + 2
    /\ update_job_status(uuid_next, Queued)
    /\ UNCHANGED << stem_jobs, pa, pb, run, versions, subs, harness, dirs, cs >>

\* The handler going on without its stem_jobs.insert.
InitStemNoInsert(r, pc, next_pc) ==
    /\ req[r].pc = pc
    /\ req' = [req EXCEPT ![r].pc = next_pc]
    /\ UNCHANGED << uuid_next, stores, pa, pb, run, versions, subs, harness, dirs, cs >>

\* stem_jobs.insert(stem_job_id, Queued) of the three handlers.
InitStem(r, pc, next_pc) ==
    /\ req[r].pc = pc
    /\ req' = [req EXCEPT ![r].pc = next_pc]
    /\ update_stem_job_status(req[r].stem_job_id, Queued)
    /\ UNCHANGED << uuid_next, jobs, pa, pb, run, versions, subs, harness, dirs, cs >>

StartAnalysisJob_Begin(r) == IssueBoth(r, "saj_init_stem")

StartAnalysisJob_InitStem(r) == InitStem(r, "saj_init_stem", "saj_upload")

\* The check for the two files made after the pipelines were spawned.
StartAnalysisJob_MissingJobLate(r) ==
    /\ req[r].pc = "returned"
    /\ req[r].job_id # BogusId
    /\ pa[req[r].job_id].pc \in {"start", "analysis"}
    /\ req' = [req EXCEPT ![r].pc = "saj_missing"]
    /\ update_job_status(req[r].job_id, Failed(<<"Missing mix or reference file">>))
    /\ UNCHANGED << uuid_next, stem_jobs, pa, pb, run, versions, subs, harness, dirs, cs >>

\* The multipart body had no mix or no reference file: jobs.insert(Failed) with
\* the jobs lock held on.
StartAnalysisJob_MissingJob(r) ==
    /\ req[r].pc = "saj_upload"
    /\ req' = [req EXCEPT ![r].pc = "saj_missing"]
    /\ update_job_status(req[r].job_id, Failed(<<"Missing mix or reference file">>))
    /\ UNCHANGED << uuid_next, stem_jobs, pa, pb, run, versions, subs, harness, dirs, cs >>

\* The missing-files branch without its return: the records are failed and the
\* handler goes on to spawn the two pipelines.
StartAnalysisJob_MissingStemSpawns(r) ==
    /\ req[r].pc = "saj_missing"
    /\ req' = [req EXCEPT ![r].pc = "returned"]
    /\ update_stem_job_status(req[r].stem_job_id, Failed(<<"Missing files">>))
    /\ SpawnAnalysis(req[r].job_id, FALSE, Some(req[r].stem_job_id))
    /\ SpawnStemSeparation(req[r].stem_job_id)
    /\ UNCHANGED << uuid_next, jobs, run, versions, subs, harness, dirs, cs >>

\* ... then stem_jobs.insert(Failed), both locks released, the response returned.
StartAnalysisJob_MissingStem(r) ==
    /\ req[r].pc = "saj_missing"
    /\ req' = [req EXCEPT ![r].pc = "returned"]
    /\ update_stem_job_status(req[r].stem_job_id, Failed(<<"Missing files">>))
    /\ UNCHANGED << uuid_next, jobs, pa, pb, run, versions, subs, harness, dirs, cs >>

\* Both files were uploaded: the two pipelines are spawned, the response returned.
StartAnalysisJob_Launch(r, project) ==
    /\ req[r].pc = "saj_upload"
    /\ req' = [req EXCEPT ![r].pc = "returned"]
    /\ SpawnAnalysis(req[r].job_id, project, Some(req[r].stem_job_id))
    /\ SpawnStemSeparation(req[r].stem_job_id)
    /\ UNCHANGED << uuid_next, stores, run, versions, subs, harness, dirs, cs >>

\* reanalyze_version: the version is in the database and its files are on disk.
ReanalyzeVersion_Begin(r) ==
    /\ versions # {}
    /\ IssueBoth(r, "rv_init_stem")

ReanalyzeVersion_InitStem(r) == InitStem(r, "rv_init_stem", "rv_launch")

ReanalyzeVersion_Launch(r) ==
    /\ req[r].pc = "rv_launch"
    /\ req' = [req EXCEPT ![r].pc = "returned"]
    /\ SpawnAnalysis(req[r].job_id, FALSE, None)
    /\ SpawnStemSeparation(req[r].stem_job_id)
    /\ UNCHANGED << uuid_next, stores, run, versions, subs, harness, dirs, cs >>

\* reanalyze_version, reanalyze_stems_only: unknown version, database error or a
\* file missing on disk: an error response, no identifier issued.
Reanalyze_Reject(r) ==
    /\ req[r].pc = "idle"
    /\ req' = [req EXCEPT ![r].pc = "rejected"]
    /\ UNCHANGED << uuid_next, stores, pa, pb, run, versions, subs, harness, dirs, cs >>

\* reanalyze_stems_only: one fresh identifier, stem_jobs.insert(Queued).
ReanalyzeStemsOnly_Begin(r, v) ==
    /\ req[r].pc = "idle"
    /\ v \in versions
    /\ req' = [req EXCEPT ![r] = [NoRequest EXCEPT !.pc = "rso_save", !.version = v.id,
                                                  !.stem_job_id = uuid_next]]
    /\ uuid_next' = uuid_next + 1
    /\ update_stem_job_status(uuid_next, Queued)
    /\ UNCHANGED << jobs, pa, pb, run, versions, subs, harness, dirs, cs >>

\* UPDATE mix_versions SET stem_job_id (its failure is ignored), then the spawn.
ReanalyzeStemsOnly_Launch(r, saved) ==
    /\ req[r].pc = "rso_save"
    /\ req' = [req EXCEPT ![r].pc = "returned"]
    /\ versions' = IF saved
                   THEN { IF v.id = req[r].version
                          THEN [v EXCEPT !.stem_job_id = Some(req[r].stem_job_id)]
                          ELSE v : v \in versions }
                   ELSE versions
    /\ SpawnStemSeparation(req[r].stem_job_id)
    /\ UNCHANGED << uuid_next, stores, pa, run, subs, harness, dirs, cs >>

\* The directories of a stem job: stems/<id> exists when one of them does.
DirsOf(d, id) == { x \in d : x[1] = id }

\* delete_version (projects.rs): the row of the version is read, the stems
\* directory of its stem_job_id is removed when it exists (remove_dir_all, its
\* result ignored), and the row is deleted unless the DELETE fails.
DeleteVersion(v, ok) ==
    /\ v \in versions
    /\ dirs' = IF v.stem_job_id = None THEN dirs ELSE dirs \ DirsOf(dirs, v.stem_job_id[1])
    /\ versions' = IF ok THEN versions \ {v} ELSE versions
    /\ UNCHANGED << uuid_next, stores, req, pa, pb, run, subs, harness, cs >>

\* -------------------------------------------------- pipeline A (analysis)

\* {"mix":{...},"reference":{...}}
MetricsOutput ==
    Stdout("metrics", TRUE, None, None, None, Some("mix metrics"), Some("reference metrics"))
\* {"mix":{...},"reference":{...},"error":"clipped"}
MetricsWithError ==
    Stdout("metrics with error", TRUE, None, None, Some(<<"clipped">>),
           Some("mix metrics"), Some("reference metrics"))

\* The standard outputs an analysis worker of the model ends with.
AnalysisOutputs ==
    { EmptyOutput, GarbageOutput, MetricsOutput, MetricsWithError,
      \* {"error":"bad input"}
      Stdout("error only", TRUE, None, None, Some(<<"bad input">>), None, None) }

\* analyze_pair: the result for a worker that was launched or not, ended with
\* code, wrote stderr_text to its standard error and out to its standard output.
AnalyzePair(launched, code, stderr_text, out) ==
    IF ~launched THEN LaunchFailure
    ELSE IF ~ExitSuccess(code) THEN Err(<<"Python script failed: ", stderr_text>>)
    ELSE IF ~out.json \/ out.mix = None \/ out.reference = None THEN ParseFailure(out)
    ELSE IF out.error # None THEN Err(<<"Analysis error: ">> \o out.error[1])
    ELSE Ok(<< <<"mix", out.mix[1]>>, <<"reference", out.reference[1]>> >>)

\* request_ai_completion: the outcomes of the report generator.
AiResults ==
    { Ok(<<"Raise the vocals">>), Err(<<"Request failed: ", "timeout">>),
      Err(<<"OpenAI error: ", "quota">>) }

\* update_job_status(Processing("Running Essentia Analysis...")), then the
\* analysis worker is started on the blocking pool.
A_Start(id) ==
    /\ pa[id].pc = "start"
    /\ pa' = [pa EXCEPT ![id].pc = "analysis"]
    /\ update_job_status(id, Processing(<<"Running Essentia Analysis...">>))
    /\ UNCHANGED << uuid_next, stem_jobs, req, pb, run, versions, subs, harness, dirs, cs >>

\* match analysis_result with a failure of the analysis carried over to the stem
\* job of the same submission.
A_AnalysisDoneFailBoth(id, launched, code, out) ==
    /\ pa[id].pc = "analysis"
    /\ LET res == AnalyzePair(launched, code, "Traceback", out) IN
       IF res.ok
       THEN /\ pa' = [pa EXCEPT ![id].pc = "ai", ![id].metrics = res.val]
            /\ update_job_status(id, Processing(<<"Consulting AI Expert...">>))
            /\ UNCHANGED stem_jobs
       ELSE /\ pa' = [pa EXCEPT ![id].pc = "done"]
            /\ update_job_status(id, Failed(<<"Analysis Error: ">> \o res.err))
            /\ stem_jobs' = IF pa[id].stem_job_id = None THEN stem_jobs
                            ELSE Insert(stem_jobs, pa[id].stem_job_id[1],
                                        Failed(<<"Analysis Error: ">> \o res.err))
    /\ UNCHANGED << uuid_next, req, pb, run, versions, subs, harness, dirs, cs >>

\* analyze_pair returns: match analysis_result.
A_AnalysisDone(id, launched, code, out) ==
    /\ pa[id].pc = "analysis"
    /\ LET res == AnalyzePair(launched, code, "Traceback", out) IN
       IF res.ok
       THEN /\ pa' = [pa EXCEPT ![id].pc = "ai", ![id].metrics = res.val]
            /\ update_job_status(id, Processing(<<"Consulting AI Expert...">>))
       ELSE /\ pa' = [pa EXCEPT ![id].pc = "done"]
            /\ update_job_status(id, Failed(<<"Analysis Error: ">> \o res.err))
    /\ UNCHANGED << uuid_next, stem_jobs, req, pb, run, versions, subs, harness, dirs, cs >>

\* match request_ai_completion with the Err arm completing the job, its
\* message in the place of the report.
A_AiDoneSwallowErr(id, res) ==
    /\ pa[id].pc = "ai"
    /\ pa' = [pa EXCEPT ![id].pc = "done", ![id].ai_text = IF res.ok THEN res.val ELSE <<>>]
    /\ update_job_status(id, JobCompleted(pa[id].metrics, IF res.ok THEN res.val ELSE res.err))
    /\ UNCHANGED << uuid_next, stem_jobs, req, pb, run, versions, subs, harness, dirs, cs >>

\* request_ai_completion returns: Err fails the job; Ok goes on to persistence
\* when a project id was given and completes the job otherwise.
A_AiDone(id, res) ==
    /\ pa[id].pc = "ai"
    /\ IF ~res.ok
       THEN /\ pa' = [pa EXCEPT ![id].pc = "done"]
            /\ update_job_status(id, Failed(<<"AI Error: ">> \o res.err))
       ELSE IF pa[id].project
       THEN /\ pa' = [pa EXCEPT ![id].pc = "persist", ![id].ai_text = res.val]
            /\ UNCHANGED jobs
       ELSE /\ pa' = [pa EXCEPT ![id].pc = "done", ![id].ai_text = res.val]
            /\ update_job_status(id, JobCompleted(pa[id].metrics, res.val))
    /\ UNCHANGED << uuid_next, stem_jobs, req, pb, run, versions, subs, harness, dirs, cs >>

\* The tables pipeline A inserts into, and the rows its three INSERTs can leave:
\* each of the first two may fail, and the third is run only after both.
Tables == {"mix_versions", "reference_tracks", "analyses"}
PersistOutcomes == { S \in SUBSET Tables : "analyses" \in S => S = Tables }

\* A failure of the INSERT into mix_versions or reference_tracks failing the job.
A_PersistEscalate(id, rows) ==
    /\ pa[id].pc = "persist"
    /\ pa' = [pa EXCEPT ![id].pc = "done", ![id].rows = rows]
    /\ versions' = IF "mix_versions" \in rows
                   THEN versions \cup {[id |-> id, stem_job_id |-> pa[id].stem_job_id]}
                   ELSE versions
    /\ update_job_status(id, IF {"mix_versions", "reference_tracks"} \subseteq rows
                             THEN JobCompleted(pa[id].metrics, pa[id].ai_text)
                             ELSE Failed(<<"Database error: ", "connection closed">>))
    /\ UNCHANGED << uuid_next, stem_jobs, req, pb, run, subs, harness, dirs, cs >>

\* The three INSERTs (mix_versions, reference_tracks, analyses), which leave
\* the rows given, then update_job_status(Completed).
A_Persist(id, rows) ==
    /\ pa[id].pc = "persist"
    /\ pa' = [pa EXCEPT ![id].pc = "done", ![id].rows = rows]
    /\ versions' = IF "mix_versions" \in rows
                   THEN versions \cup {[id |-> id, stem_job_id |-> pa[id].stem_job_id]}
                   ELSE versions
    /\ update_job_status(id, JobCompleted(pa[id].metrics, pa[id].ai_text))
    /\ UNCHANGED << uuid_next, stem_jobs, req, pb, run, subs, harness, dirs, cs >>

\* ------------------------------------- ProcessRunner (stem_separation.rs)

Lo(phase) == IF phase = "mix" THEN MixLo ELSE RefLo
StagePrefix(phase) == IF phase = "mix" THEN <<"Mix: ">> ELSE <<"Reference: ">>

\* The record the relay loop writes for one received progress event.
RelayRecord(phase, ev) ==
    Separating(ScaleProgress(Lo(phase), ev.progress), StagePrefix(phase) \o ev.stage)

\* The worker thread runs Command::spawn: the process starts (and with it the
\* stderr reader thread), or the launch fails and the thread returns Err.
Thread_Launch(id, ph, ok) ==
    /\ run[id][ph].handle = "running"
    /\ run[id][ph].proc = "none"
    /\ run' = [run EXCEPT ![id][ph] =
                 IF ok
                 THEN [@ EXCEPT !.proc = "running", !.reader = "running"]
                 ELSE [@ EXCEPT !.proc = "nolaunch", !.handle = "finished",
                                !.result = LaunchFailure]]
    /\ UNCHANGED << uuid_next, stores, req, pa, pb, versions, subs, harness, dirs, cs >>

\* The worker process writes one line to its standard error.
Worker_Write(id, ph, line) ==
    /\ run[id][ph].proc = "running"
    /\ Len(run[id][ph].wrote) < MaxLines
    /\ run' = [run EXCEPT ![id][ph].pipe = Append(@, line),
                          ![id][ph].wrote = Append(@, line)]
    /\ UNCHANGED << uuid_next, stores, req, pa, pb, versions, subs, harness, dirs, cs >>

\* The worker process writes several lines to its standard error at once.
Worker_WriteAll(id, ph, text) ==
    /\ run[id][ph].proc = "running"
    /\ run[id][ph].wrote = <<>>
    /\ text # <<>>
    /\ run' = [run EXCEPT ![id][ph].pipe = @ \o text,
                          ![id][ph].wrote = @ \o text]
    /\ UNCHANGED << uuid_next, stores, req, pa, pb, versions, subs, harness, dirs, cs >>

\* The worker process ends, leaving its exit code and its standard output.
Worker_Exit(id, ph, code, out) ==
    /\ run[id][ph].proc = "running"
    /\ run' = [run EXCEPT ![id][ph].proc = "exited", ![id][ph].code = code,
                          ![id][ph].out = out]
    /\ UNCHANGED << uuid_next, stores, req, pa, pb, versions, subs, harness, dirs, cs >>

\* A channel that hands out the newest event first.
SendFront(r, evs) == IF r.rx THEN evs \o r.chan ELSE r.chan

\* tx_clone.send(..): queued while the receiver lives, dropped (Err ignored) after.
Send(r, evs) == IF r.rx THEN r.chan \o evs ELSE r.chan

\* The reader thread sending into one channel shared by the two invocations
\* of a job: the channel of the invocation the pipeline serves.
Reader_ReadShared(id, ph) ==
    /\ run[id][ph].reader = "running"
    /\ run[id][ph].pipe # <<>>
    /\ run' = [run EXCEPT ![id] =
                 [q \in Phases |->
                    LET r == IF q = ph THEN [run[id][q] EXCEPT !.pipe = Tail(@)]
                             ELSE run[id][q]
                    IN IF q = pb[id].phase
                       THEN [r EXCEPT !.chan = Send(run[id][q],
                                                    ParseProgressLine(Head(run[id][ph].pipe)))]
                       ELSE r]]
    /\ UNCHANGED << uuid_next, stores, req, pa, pb, versions, subs, harness, dirs, cs >>

\* The stderr reader thread reads the next line and sends its progress event;
\* late counts the lines read with the receiver gone, when a send fails.
Reader_Read(id, ph) ==
    /\ run[id][ph].reader = "running"
    /\ run[id][ph].pipe # <<>>
    /\ run' = [run EXCEPT ![id][ph].pipe = Tail(@),
                          ![id][ph].chan =
                              Send(run[id][ph], ParseProgressLine(Head(run[id][ph].pipe))),
                          ![id][ph].late = IF run[id][ph].rx THEN @ ELSE @ + 1]
    /\ UNCHANGED << uuid_next, stores, req, pa, pb, versions, subs, harness, dirs, cs >>

\* The reader reaches the end of the stream (every line read, the process
\* gone): the thread ends and drops tx_clone.
Reader_Eof(id, ph) ==
    /\ run[id][ph].reader = "running"
    /\ run[id][ph].pipe = <<>>
    /\ run[id][ph].proc = "exited"
    /\ run' = [run EXCEPT ![id][ph].reader = "done"]
    /\ UNCHANGED << uuid_next, stores, req, pa, pb, versions, subs, harness, dirs, cs >>

\* The worker thread returning without the wait for the process to end.
Thread_FinishEarly(id, ph) ==
    /\ run[id][ph].handle = "running"
    /\ run[id][ph].proc \in {"running", "exited"}
    /\ run' = [run EXCEPT ![id][ph].handle = "finished",
                          ![id][ph].result =
                              SeparationResult(run[id][ph].code, run[id][ph].out)]
    /\ UNCHANGED << uuid_next, stores, req, pa, pb, versions, subs, harness, dirs, cs >>

\* child.wait_with_output() returns once the process is gone; the worker thread
\* computes its result, returns and drops tx.  (That the operating system
\* refuses the wait for the server's own child is not modelled.)
Thread_Finish(id, ph) ==
    /\ run[id][ph].handle = "running"
    /\ run[id][ph].proc = "exited"
    /\ run' = [run EXCEPT ![id][ph].handle = "finished",
                          ![id][ph].result =
                              SeparationResult(run[id][ph].code, run[id][ph].out)]
    /\ UNCHANGED << uuid_next, stores, req, pa, pb, versions, subs, harness, dirs, cs >>

\* ------------------------------------------- pipeline B (stem separation)

B_Write(id, next_pc, status) ==
    /\ pb' = [pb EXCEPT ![id].pc = next_pc, ![id].left = ""]
    /\ update_stem_job_status(id, status)

\* update_stem_job_status(Separating { 0, "Initializing Demucs..." })
B_Start(id) ==
    /\ pb[id].pc = "start"
    /\ B_Write(id, "mkdir_mix", Separating(0, <<"Initializing Demucs...">>))
    /\ UNCHANGED << uuid_next, jobs, req, pa, run, versions, subs, harness, dirs, cs >>

\* fs::create_dir_all(mix_stems_dir)
B_MkdirMix(id, ok) ==
    /\ pb[id].pc = "mkdir_mix"
    /\ IF ok
       THEN /\ pb' = [pb EXCEPT ![id].pc = "mkdir_ref"]
            /\ dirs' = dirs \cup {<<id, "mix">>}
            /\ UNCHANGED stem_jobs
       ELSE /\ B_Write(id, "done",
                       Failed(<<"Failed to create output dir: ", "Permission denied">>))
            /\ UNCHANGED dirs
    /\ UNCHANGED << uuid_next, jobs, req, pa, run, versions, subs, harness, cs >>

\* fs::create_dir_all(ref_stems_dir)
B_MkdirRef(id, ok) ==
    /\ pb[id].pc = "mkdir_ref"
    /\ IF ok
       THEN /\ pb' = [pb EXCEPT ![id].pc = "announce_mix"]
            /\ dirs' = dirs \cup {<<id, "reference">>}
            /\ UNCHANGED stem_jobs
       ELSE /\ B_Write(id, "done",
                       Failed(<<"Failed to create ref output dir: ", "Permission denied">>))
            /\ UNCHANGED dirs
    /\ UNCHANGED << uuid_next, jobs, req, pa, run, versions, subs, harness, cs >>

\* The announcement written with the wrong variant, Queued.
B_AnnounceMixQueued(id) ==
    /\ pb[id].pc = "announce_mix"
    /\ B_Write(id, "run_start", Queued)
    /\ UNCHANGED << uuid_next, jobs, req, pa, run, versions, subs, harness, dirs, cs >>

\* update_stem_job_status(Separating { 2, "Starting mix stem separation..." })
B_AnnounceMix(id) ==
    /\ pb[id].pc = "announce_mix"
    /\ B_Write(id, "run_start", Separating(2, <<"Starting mix stem separation...">>))
    /\ UNCHANGED << uuid_next, jobs, req, pa, run, versions, subs, harness, dirs, cs >>

\* The mix closure starting the invocation of the reference together with its own.
B_StartRunnerParallel(id) ==
    /\ pb[id].pc = "run_start"
    /\ pb' = [pb EXCEPT ![id].pc = "relay"]
    /\ run' = [run EXCEPT ![id] =
                 [ph \in Phases |->
                    IF ph = pb[id].phase \/ pb[id].phase = "mix"
                    THEN [NoRun EXCEPT !.handle = "running", !.rx = TRUE]
                    ELSE run[id][ph]]]
    /\ UNCHANGED << uuid_next, stores, req, pa, versions, subs, harness, dirs, cs >>

\* The blocking closure calls separate_stems_with_progress: the channel is
\* created and the worker thread spawned; the closure enters its relay loop.
B_StartRunner(id) ==
    /\ pb[id].pc = "run_start"
    /\ pb' = [pb EXCEPT ![id].pc = "relay"]
    /\ run' = [run EXCEPT ![id][pb[id].phase] =
                 [NoRun EXCEPT !.handle = "running", !.rx = TRUE]]
    /\ UNCHANGED << uuid_next, stores, req, pa, versions, subs, harness, dirs, cs >>

\* rx.recv_timeout returns Ok(progress): the rescaled progress is written.
Relay_Recv(id) ==
    /\ pb[id].pc = "relay"
    /\ LET ph == pb[id].phase
           r == run[id][ph]
       IN /\ r.chan # <<>>
          /\ run' = [run EXCEPT ![id][ph].chan = Tail(@),
                                ![id][ph].relayed = Append(@, Head(r.chan))]
          /\ update_stem_job_status(id, RelayRecord(ph, Head(r.chan)))
    /\ UNCHANGED << uuid_next, jobs, req, pa, pb, versions, subs, harness, dirs, cs >>

\* The relay loop breaks and handle.join() returns the worker thread's result;
\* the closure returns, which drops rx.  left is the arm of the match on
\* recv_timeout that broke the loop.
Relay_Leave(id, arm) ==
    /\ pb' = [pb EXCEPT ![id].pc = "joined", ![id].left = arm]
    /\ run' = [run EXCEPT ![id][pb[id].phase].rx = FALSE,
                          ![id][pb[id].phase].outcomes =
                              Append(@, run[id][pb[id].phase].result)]

\* rx.recv_timeout returns Err(Timeout), no event within 100 ms while a sender
\* lives, and handle.is_finished(): break.  (Not finished: the loop polls again.)
Relay_Timeout(id) ==
    /\ pb[id].pc = "relay"
    /\ run[id][pb[id].phase].chan = <<>>
    /\ run[id][pb[id].phase].reader = "running"
    /\ run[id][pb[id].phase].handle = "finished"
    /\ Relay_Leave(id, "Timeout")
    /\ UNCHANGED << uuid_next, stores, req, pa, versions, subs, harness, dirs, cs >>

\* The Disconnected arm polling again instead of breaking the loop.
Relay_DisconnectedIgnored(id) ==
    /\ pb[id].pc = "relay"
    /\ run[id][pb[id].phase].chan = <<>>
    /\ run[id][pb[id].phase].reader # "running"
    /\ run[id][pb[id].phase].handle = "finished"
    /\ UNCHANGED vars

\* The Disconnected arm returning an error of its own without the join.
Relay_DisconnectedFails(id) ==
    /\ pb[id].pc = "relay"
    /\ run[id][pb[id].phase].chan = <<>>
    /\ run[id][pb[id].phase].reader # "running"
    /\ run[id][pb[id].phase].handle = "finished"
    /\ pb' = [pb EXCEPT ![id].pc = "joined", ![id].left = "Disconnected"]
    /\ run' = [run EXCEPT ![id][pb[id].phase].rx = FALSE,
                          ![id][pb[id].phase].result = Err(<<"Progress channel closed">>),
                          ![id][pb[id].phase].outcomes =
                              Append(@, Err(<<"Progress channel closed">>))]
    /\ UNCHANGED << uuid_next, stores, req, pa, versions, subs, harness, dirs, cs >>

\* rx.recv_timeout returns Err(Disconnected), the channel empty and tx and
\* tx_clone both dropped: break.
Relay_Disconnected(id) ==
    /\ pb[id].pc = "relay"
    /\ run[id][pb[id].phase].chan = <<>>
    /\ run[id][pb[id].phase].reader # "running"
    /\ run[id][pb[id].phase].handle = "finished"
    /\ Relay_Leave(id, "Disconnected")
    /\ UNCHANGED << uuid_next, stores, req, pa, versions, subs, harness, dirs, cs >>

\* What is left of an invocation once its result has been moved out of it: the
\* process and the reader thread, with the lines the reader has yet to read.
Consumed(r) ==
    [NoRun EXCEPT !.proc = r.proc, !.pipe = r.pipe, !.reader = r.reader,
                  !.handle = r.handle, !.code = r.code, !.late = r.late]

\* match mix_result with the return of the Err arm left out: the job is failed
\* and the pipeline goes on to the reference separation.
B_MixDoneNoReturn(id) ==
    /\ pb[id].pc = "joined"
    /\ pb[id].phase = "mix"
    /\ LET res == run[id]["mix"].result IN
       /\ pb' = [pb EXCEPT ![id].pc = "run_start", ![id].phase = "reference", ![id].left = "",
                           ![id].mix_stems =
                               IF res.ok /\ res.val # None THEN res.val[1] ELSE <<>>]
       /\ update_stem_job_status(
              id, IF res.ok
                  THEN Separating(50, <<"Starting reference stem separation...">>)
                  ELSE Failed(<<"Mix separation failed: ">> \o res.err))
       /\ run' = [run EXCEPT ![id]["mix"] = Consumed(@)]
    /\ UNCHANGED << uuid_next, jobs, req, pa, versions, subs, harness, dirs, cs >>

\* match mix_result with the Err arm writing a message of its own, the error of
\* the invocation left out.
B_MixDoneGeneric(id) ==
    /\ pb[id].pc = "joined"
    /\ pb[id].phase = "mix"
    /\ LET res == run[id]["mix"].result IN
       IF res.ok
       THEN /\ pb' = [pb EXCEPT ![id].pc = "run_start", ![id].phase = "reference", ![id].left = "",
                                ![id].mix_stems =
                                    IF res.val = None THEN <<>> ELSE res.val[1]]
            /\ update_stem_job_status(
                   id, Separating(50, <<"Starting reference stem separation...">>))
            /\ run' = [run EXCEPT ![id]["mix"] = Consumed(@)]
       ELSE /\ B_Write(id, "done", Failed(<<"Mix separation failed">>))
            /\ UNCHANGED run
    /\ UNCHANGED << uuid_next, jobs, req, pa, versions, subs, harness, dirs, cs >>

\* match mix_result: Err fails the job; Ok keeps the stems and announces the
\* reference separation at 50 %.
B_MixDone(id) ==
    /\ pb[id].pc = "joined"
    /\ pb[id].phase = "mix"
    /\ LET res == run[id]["mix"].result IN
       IF res.ok
       THEN /\ pb' = [pb EXCEPT ![id].pc = "run_start", ![id].phase = "reference", ![id].left = "",
                                ![id].mix_stems =
                                    IF res.val = None THEN <<>> ELSE res.val[1]]
            /\ update_stem_job_status(
                   id, Separating(50, <<"Starting reference stem separation...">>))
            /\ run' = [run EXCEPT ![id]["mix"] = Consumed(@)]
       ELSE /\ B_Write(id, "done", Failed(<<"Mix separation failed: ">> \o res.err))
            /\ UNCHANGED run
    /\ UNCHANGED << uuid_next, jobs, req, pa, versions, subs, harness, dirs, cs >>

\* match ref_result with the Err arm taken for Ok: the result of the reference
\* is not looked at.
B_RefDoneIgnoreErr(id) ==
    /\ pb[id].pc = "joined"
    /\ pb[id].phase = "reference"
    /\ B_Write(id, "complete", Analyzing(<<"all stems">>))
    /\ UNCHANGED << uuid_next, jobs, req, pa, run, versions, subs, harness, dirs, cs >>

\* match ref_result: Err fails the job; Ok announces the analysis of the stems.
B_RefDone(id) ==
    /\ pb[id].pc = "joined"
    /\ pb[id].phase = "reference"
    /\ LET res == run[id]["reference"].result IN
       IF res.ok
       THEN B_Write(id, "complete", Analyzing(<<"all stems">>))
       ELSE B_Write(id, "done", Failed(<<"Reference separation failed: ">> \o res.err))
    /\ UNCHANGED << uuid_next, jobs, req, pa, run, versions, subs, harness, dirs, cs >>

\* stem_metrics is built from mix_stems; update_stem_job_status(Completed).
B_Complete(id) ==
    /\ pb[id].pc = "complete"
    /\ B_Write(id, "done", StemCompleted(pb[id].mix_stems))
    /\ UNCHANGED << uuid_next, jobs, req, pa, run, versions, subs, harness, dirs, cs >>

\* ------------------------------------------------- status streams (SSE)

StatusJson(kind, st) == IF kind = "job" THEN JobStatusJson(st) ELSE StemJobStatusJson(st)
NotFoundEvent(kind) == IF kind = "job" THEN JobNotFoundEvent ELSE StemNotFoundEvent
Store(kind) == IF kind = "job" THEN jobs ELSE stem_jobs

\* The identifiers a client has been given: those of the responses returned.
Returned ==
    { req[r].job_id : r \in { q \in Requests : req[q].pc = "returned" } }
    \cup { req[r].stem_job_id : r \in { q \in Requests : req[q].pc = "returned" } }

\* GET /api/jobs/:id or /api/stems/:id: the stream is created, last_status_json
\* is String::new().
Subscribe(p, kind, id) ==
    /\ subs[p].state = "idle"
    /\ id \in (Returned \cup {BogusId})
    /\ subs' = [subs EXCEPT ![p] = [NoStream EXCEPT !.state = "open", !.kind = kind,
                                                     !.id = id]]
    /\ UNCHANGED << uuid_next, stores, req, pa, pb, run, versions, harness, dirs, cs >>

\* yield Ok(Event::default().data(json)): event is the event last sent to the
\* client and before the one sent before it (<<>> while there is none), quiet
\* the number of samples since then that sent nothing.
Yield(s, json) == [s EXCEPT !.event = json, !.before = s.event, !.quiet = 0]

\* if json != last_status_json { yield json; last_status_json = json }
EmitAlways(s, json) == [Yield(s, json) EXCEPT !.last = json]

\* A sample that finds the record as last sent sending the Queued status.
EmitQueuedWhenSame(s, json) ==
    IF json # s.last
    THEN [Yield(s, json) EXCEPT !.last = json]
    ELSE Yield(s, JobStatusJson(Queued))

Emit(s, json) ==
    IF json # s.last
    THEN [Yield(s, json) EXCEPT !.last = json]
    ELSE [s EXCEPT !.quiet = @ + 1]

\* The loop going on after a Completed or Failed status.
CloseNever(s, st) == s

\* The break of the loop after a Completed or Failed status.
CloseIfTerminal(s, st) == IF IsTerminal(st) THEN [s EXCEPT !.state = "closed"] ELSE s

\* The None arm: the not-found event is sent without a look at
\* last_status_json, then the loop breaks.
NotFoundNoBreak(s) == Yield(s, NotFoundEvent(s.kind))

NotFound(s) == [Yield(s, NotFoundEvent(s.kind)) EXCEPT !.state = "closed"]

\* Whether the next sample of stream s sends an event.
Changed(s) ==
    LET status == Get(Store(s.kind), s.id) IN
    IF status = None THEN TRUE ELSE StatusJson(s.kind, status[1]) # s.last

\* One iteration of the loop of a stream: the record is read under the lock,
\* serialized, sent if it differs from the last one sent; the stream ends on a
\* terminal status and, after the not-found event, on a missing record.
Sample(p) ==
    /\ subs[p].state = "open"
    /\ Changed(subs[p]) \/ subs[p].quiet < MaxQuiet
    /\ LET s == subs[p]
           status == Get(Store(s.kind), s.id)
       IN subs' = [subs EXCEPT ![p] =
                     IF status # None
                     THEN CloseIfTerminal(Emit(s, StatusJson(s.kind, status[1])), status[1])
                     ELSE NotFound(s)]
    /\ UNCHANGED << uuid_next, stores, req, pa, pb, run, versions, harness, dirs, cs >>

\* The client going away cancels the stem pipeline of the job it watched.
DisconnectCancel(p) ==
    /\ subs[p].state = "open"
    /\ subs' = [subs EXCEPT ![p] = [NoStream EXCEPT !.state = "dropped"]]
    /\ pb' = [i \in AllIds |->
                IF i = subs[p].id /\ subs[p].kind = "stem" /\ pb[i].pc # "none"
                THEN [pb[i] EXCEPT !.pc = "done"] ELSE pb[i]]
    /\ UNCHANGED << uuid_next, stores, req, pa, run, versions, harness, dirs, cs >>

\* The client goes away: the stream is dropped.
Disconnect(p) ==
    /\ subs[p].state = "open"
    /\ subs' = [subs EXCEPT ![p] = [NoStream EXCEPT !.state = "dropped"]]
    /\ UNCHANGED << uuid_next, stores, req, pa, pb, run, versions, harness, dirs, cs >>

\* ------------------------------------------- reader and relay on their own

\* The loop of the stderr reader thread over the lines of feed: each line is
\* read in turn and the event it yields, if any, is sent.
Harness_Read ==
    /\ feed # <<>>
    /\ feed' = Tail(feed)
    /\ fed' = Append(fed, Head(feed))
    /\ sent' = sent \o ParseProgressLine(Head(feed))
    /\ UNCHANGED << uuid_next, stores, req, pa, pb, run, versions, subs, shown, hphase,
                    dirs, cs >>

\* The Ok arm of the relay loop for the next event sent: the record it writes.
Harness_Relay ==
    /\ Len(shown) < Len(sent)
    /\ shown' = Append(shown, RelayRecord(hphase, sent[Len(shown) + 1]))
    /\ UNCHANGED << uuid_next, stores, req, pa, pb, run, versions, subs, feed, fed, sent,
                    hphase, dirs, cs >>

RECURSIVE SeqsUpTo(_, _)
SeqsUpTo(S, n) ==
    IF n = 0 THEN { <<>> }
    ELSE SeqsUpTo(S, n - 1)
         \cup { Append(q, x) : q \in { t \in SeqsUpTo(S, n - 1) : Len(t) = n - 1 }, x \in S }

\* The reader is fed every text of at most MaxFeed of the example lines.
InitReader ==
    /\ InitSystem
    /\ feed \in SeqsUpTo(FeedLines, MaxFeed)
    /\ fed = <<>>
    /\ sent = <<>>
    /\ shown = <<>>
    /\ hphase = "mix"

SpecReader == InitReader /\ [][Harness_Read]_vars

\* The worker's percent is documented as 0-100.
PercentMax == 100

\* The relay loop of either phase finds two progress events in its channel,
\* of every pair of percents in 0..PercentMax.
InitScale ==
    /\ InitSystem
    /\ feed = <<>>
    /\ fed = <<>>
    /\ sent \in { << StemProgress(p, <<"x">>), StemProgress(q, <<"y">>) >> :
                    p \in 0..PercentMax, q \in 0..PercentMax }
    /\ shown = <<>>
    /\ hphase \in Phases

SpecScale == InitScale /\ [][Harness_Relay]_vars

\* ------------------------------------------------------------ specification

NextHandlers ==
    \/ \E r \in Requests : StartAnalysisJob_Begin(r)
    \/ \E r \in Requests : StartAnalysisJob_InitStem(r)
    \/ \E r \in Requests : StartAnalysisJob_MissingJob(r)
    \/ \E r \in Requests : StartAnalysisJob_MissingStem(r)
    \/ \E r \in Requests, project \in BOOLEAN : StartAnalysisJob_Launch(r, project)
    \/ \E r \in Requests : ReanalyzeVersion_Begin(r)
    \/ \E r \in Requests : ReanalyzeVersion_InitStem(r)
    \/ \E r \in Requests : ReanalyzeVersion_Launch(r)
    \/ \E r \in Requests : Reanalyze_Reject(r)
    \/ \E r \in Requests, v \in versions : ReanalyzeStemsOnly_Begin(r, v)
    \/ \E r \in Requests, saved \in BOOLEAN : ReanalyzeStemsOnly_Launch(r, saved)

NextAnalysisWith(codes, outs, dbs) ==
    \/ \E id \in AllIds : A_Start(id)
    \/ \E id \in AllIds, launched \in BOOLEAN, code \in codes, out \in outs :
           A_AnalysisDone(id, launched, code, out)
    \/ \E id \in AllIds, res \in AiResults : A_AiDone(id, res)
    \/ \E id \in AllIds, rows \in dbs : A_Persist(id, rows)

NextStems ==
    \/ \E id \in AllIds : B_Start(id)
    \/ \E id \in AllIds, ok \in BOOLEAN : B_MkdirMix(id, ok)
    \/ \E id \in AllIds, ok \in BOOLEAN : B_MkdirRef(id, ok)
    \/ \E id \in AllIds : B_AnnounceMix(id)
    \/ \E id \in AllIds : B_StartRunner(id)
    \/ \E id \in AllIds : Relay_Recv(id)
    \/ \E id \in AllIds : Relay_Timeout(id)
    \/ \E id \in AllIds : Relay_Disconnected(id)
    \/ \E id \in AllIds : B_MixDone(id)
    \/ \E id \in AllIds : B_RefDone(id)
    \/ \E id \in AllIds : B_Complete(id)

NextRunnerWith(lines, codes, outs) ==
    \/ \E id \in AllIds, ph \in Phases, ok \in BOOLEAN : Thread_Launch(id, ph, ok)
    \/ \E id \in AllIds, ph \in Phases, line \in lines : Worker_Write(id, ph, line)
    \/ \E id \in AllIds, ph \in Phases, code \in codes :
           \E out \in outs \cap StemOutputs(ph) : Worker_Exit(id, ph, code, out)
    \/ \E id \in AllIds, ph \in Phases : Reader_Read(id, ph)
    \/ \E id \in AllIds, ph \in Phases : Reader_Eof(id, ph)
    \/ \E id \in AllIds, ph \in Phases : Thread_Finish(id, ph)

AllStemOutputs == StemOutputs("mix") \cup StemOutputs("reference")

NextStreams ==
    \/ \E p \in Subscribers, kind \in {"job", "stem"}, id \in AllIds \cup {BogusId} :
           Subscribe(p, kind, id)
    \/ \E p \in Subscribers : Sample(p)
    \/ \E p \in Subscribers : Disconnect(p)

\* The whole server.  The workers of this specification are plain ones: at most
\* one kind of progress line, and an exit that is a success or a failure.
Next ==
    \/ NextHandlers
    \/ NextAnalysisWith({Some(0), Some(1)}, {MetricsOutput}, {{}, Tables})
    \/ NextStems
    \/ NextRunnerWith({LineHalfway}, {Some(0), Some(1)},
                      {SuccessEnvelope("mix"), SuccessEnvelope("reference")})
    \/ NextStreams

Spec == Init /\ [][Next]_vars

\* The stem pipeline on its own, started by reanalyze_stems_only, with no
\* stream, against every kind of worker.
NextStemsOnly ==
    \/ \E r \in Requests, v \in versions : ReanalyzeStemsOnly_Begin(r, v)
    \/ \E r \in Requests, saved \in BOOLEAN : ReanalyzeStemsOnly_Launch(r, saved)
    \/ NextStems
    \/ NextRunnerWith(WorkerLines, ExitCodes, AllStemOutputs)

SpecStems == Init /\ [][NextStemsOnly]_vars

\* Pipeline A on its own, started by start_analysis_job or reanalyze_version,
\* against every kind of analysis worker and every outcome of the INSERTs, with
\* the stream of its job.
NextAnalysisOnly ==
    \/ \E r \in Requests : StartAnalysisJob_Begin(r)
    \/ \E r \in Requests : StartAnalysisJob_InitStem(r)
    \/ \E r \in Requests, project \in BOOLEAN : StartAnalysisJob_Launch(r, project)
    \/ \E r \in Requests : ReanalyzeVersion_Begin(r)
    \/ \E r \in Requests : ReanalyzeVersion_InitStem(r)
    \/ \E r \in Requests : ReanalyzeVersion_Launch(r)
    \/ NextAnalysisWith(ExitCodes, AnalysisOutputs, PersistOutcomes)
    \/ \E p \in Subscribers, id \in AllIds : Subscribe(p, "job", id)
    \/ \E p \in Subscribers : Sample(p)

SpecAnalysis == Init /\ [][NextAnalysisOnly]_vars

\* The stem pipeline started by reanalyze_stems_only, against plain workers,
\* with the clients deleting versions.
NextDelete ==
    \/ \E r \in Requests, v \in versions : ReanalyzeStemsOnly_Begin(r, v)
    \/ \E r \in Requests, saved \in BOOLEAN : ReanalyzeStemsOnly_Launch(r, saved)
    \/ NextStems
    \/ NextRunnerWith({LineHalfway}, {Some(0), Some(1)},
                      {SuccessEnvelope("mix"), SuccessEnvelope("reference")})
    \/ \E v \in versions, ok \in BOOLEAN : DeleteVersion(v, ok)

SpecDelete == Init /\ [][NextDelete]_vars

\* The standard outputs of the failure kinds of a separation worker, beside
\* the successful one: no envelope, and an envelope that reports an error.
FailureOutputs ==
    { GarbageOutput, FailureEnvelope, SuccessEnvelope("mix"), SuccessEnvelope("reference") }

\* One submission of start_analysis_job with its two pipelines and the streams
\* of both, against workers that fail to launch, exit with a failure, print no
\* envelope or report an error, and write nothing to their standard error.
NextFailures ==
    \/ \E r \in Requests : StartAnalysisJob_Begin(r)
    \/ \E r \in Requests : StartAnalysisJob_InitStem(r)
    \/ \E r \in Requests : StartAnalysisJob_Launch(r, FALSE)
    \/ \E id \in AllIds : A_Start(id)
    \/ \E id \in AllIds, launched \in BOOLEAN, code \in {Some(0), Some(1)} :
           \E out \in {GarbageOutput, MetricsWithError, MetricsOutput} :
               A_AnalysisDone(id, launched, code, out)
    \/ \E id \in AllIds, res \in AiResults : A_AiDone(id, res)
    \/ \E id \in AllIds : B_Start(id)
    \/ \E id \in AllIds, ok \in BOOLEAN : B_MkdirMix(id, ok)
    \/ \E id \in AllIds, ok \in BOOLEAN : B_MkdirRef(id, ok)
    \/ \E id \in AllIds : B_AnnounceMix(id)
    \/ \E id \in AllIds : B_StartRunner(id)
    \/ \E id \in AllIds : Relay_Timeout(id)
    \/ \E id \in AllIds : Relay_Disconnected(id)
    \/ \E id \in AllIds : B_MixDone(id)
    \/ \E id \in AllIds : B_RefDone(id)
    \/ \E id \in AllIds : B_Complete(id)
    \/ \E id \in AllIds, ph \in Phases, ok \in BOOLEAN : Thread_Launch(id, ph, ok)
    \/ \E id \in AllIds, ph \in Phases, code \in {Some(0), Some(1)} :
           \E out \in FailureOutputs \cap StemOutputs(ph) : Worker_Exit(id, ph, code, out)
    \/ \E id \in AllIds, ph \in Phases : Reader_Eof(id, ph)
    \/ \E id \in AllIds, ph \in Phases : Thread_Finish(id, ph)
    \/ \E p \in Subscribers, kind \in {"job", "stem"}, id \in AllIds : Subscribe(p, kind, id)
    \/ \E p \in Subscribers : Sample(p)

SpecFailures == Init /\ [][NextFailures]_vars

\* The stem pipeline started by reanalyze_stems_only, against workers that
\* write one burst of lines (a progress line of 100 %, one that is no progress
\* line, a progress line of 0 %), exit with code 0 and print a successful
\* envelope.
NextBurst ==
    \/ \E r \in Requests, v \in versions : ReanalyzeStemsOnly_Begin(r, v)
    \/ \E r \in Requests : ReanalyzeStemsOnly_Launch(r, TRUE)
    \/ NextStems
    \/ \E id \in AllIds, ph \in Phases : Thread_Launch(id, ph, TRUE)
    \/ \E id \in AllIds, ph \in Phases :
           \E text \in SeqsUpTo({LineHundred, LineWarning, LineZero}, MaxBurst) :
               Worker_WriteAll(id, ph, text)
    \/ \E id \in AllIds, ph \in Phases : Worker_Exit(id, ph, Some(0), SuccessEnvelope(ph))
    \/ \E id \in AllIds, ph \in Phases : Reader_Read(id, ph)
    \/ \E id \in AllIds, ph \in Phases : Reader_Eof(id, ph)
    \/ \E id \in AllIds, ph \in Phases : Thread_Finish(id, ph)

SpecBurst == Init /\ [][NextBurst]_vars

\* One submission of start_analysis_job, with or without its two files, the
\* analysis pipeline it spawns and the streams of both kinds; the sampling loop
\* of every stream is scheduled fairly (tokio wakes it after each sleep).
NextStreamsLive ==
    \/ \E r \in Requests : StartAnalysisJob_Begin(r)
    \/ \E r \in Requests : StartAnalysisJob_InitStem(r)
    \/ \E r \in Requests : StartAnalysisJob_MissingJob(r)
    \/ \E r \in Requests : StartAnalysisJob_MissingStem(r)
    \/ \E r \in Requests, project \in BOOLEAN : StartAnalysisJob_Launch(r, project)
    \/ NextAnalysisWith({Some(0), Some(1)}, {MetricsOutput}, {{}, Tables})
    \/ NextStreams

SpecStreamsLive ==
    Init /\ [][NextStreamsLive]_vars /\ \A p \in Subscribers : WF_vars(Sample(p))

\* A step of a spawned task, of a thread of the runner or of a worker process
\* that ends: what goes on by itself once a pipeline has been launched.
System ==
    \/ \E id \in AllIds :
           \/ A_Start(id)
           \/ \E launched \in BOOLEAN, code \in {Some(0), Some(1)} :
                  A_AnalysisDone(id, launched, code, MetricsOutput)
           \/ \E res \in AiResults : A_AiDone(id, res)
           \/ \E rows \in {{}, Tables} : A_Persist(id, rows)
           \/ B_Start(id)
           \/ \E ok \in BOOLEAN : B_MkdirMix(id, ok)
           \/ \E ok \in BOOLEAN : B_MkdirRef(id, ok)
           \/ B_AnnounceMix(id)
           \/ B_StartRunner(id)
           \/ Relay_Recv(id)
           \/ Relay_Timeout(id)
           \/ Relay_Disconnected(id)
           \/ B_MixDone(id)
           \/ B_RefDone(id)
           \/ B_Complete(id)
    \/ \E id \in AllIds, ph \in Phases :
           \/ \E ok \in BOOLEAN : Thread_Launch(id, ph, ok)
           \/ \E code \in {Some(0), Some(1)} : Worker_Exit(id, ph, code, SuccessEnvelope(ph))
           \/ Reader_Read(id, ph)
           \/ Reader_Eof(id, ph)
           \/ Thread_Finish(id, ph)

\* One submission of start_analysis_job and its two pipelines, no stream.
\* Every worker process ends, every collaborator call returns and every task
\* and thread that can take a step takes one in the end.
NextPipelines ==
    \/ \E r \in Requests : StartAnalysisJob_Begin(r)
    \/ \E r \in Requests : StartAnalysisJob_InitStem(r)
    \/ \E r \in Requests, project \in BOOLEAN : StartAnalysisJob_Launch(r, project)
    \/ NextAnalysisWith({Some(0), Some(1)}, {MetricsOutput}, {{}, Tables})
    \/ NextStems
    \/ NextRunnerWith({LineHalfway}, {Some(0), Some(1)},
                      {SuccessEnvelope("mix"), SuccessEnvelope("reference")})

SpecPipelinesLive == Init /\ [][NextPipelines]_vars /\ WF_vars(System)

\* The tasks of Programs run against each other, one statement at a time.
NextLocks ==
    \/ \E t \in DOMAIN Programs : CS_Lock(t)
    \/ \E t \in DOMAIN Programs : CS_Operate(t)
    \/ \E t \in DOMAIN Programs : CS_Unlock(t)
    \/ \E t \in DOMAIN Programs : CS_Advance(t)

SpecLocks == Init /\ [][NextLocks]_vars

\* ================================================================== claims

\* ------------------------------------------------------------------- C1

\* C1: Terminal is absorbing.  In every step of the server, a record of jobs or
\* of stem_jobs that is Completed or Failed is still in its store afterwards,
\* with the same value.
C1_TerminalAbsorbing ==
    [][ /\ \A id \in DOMAIN jobs :
              IsTerminal(jobs[id]) => id \in DOMAIN jobs' /\ jobs'[id] = jobs[id]
        /\ \A id \in DOMAIN stem_jobs :
              IsTerminal(stem_jobs[id])
                  => id \in DOMAIN stem_jobs' /\ stem_jobs'[id] = stem_jobs[id] ]_vars

\* Both pipelines of a submission have ended, one of them failed, while a
\* worker thread of the stem pipeline is still about.
C1_Witness ==
    \E j \in DOMAIN jobs, k \in DOMAIN stem_jobs :
        /\ pa[j].pc = "done" /\ pb[k].pc = "done"
        /\ jobs[j].tag = "Completed" /\ stem_jobs[k].tag = "Failed"
        /\ run[k]["mix"].handle = "finished"

\* ------------------------------------------------------------------- C2

\* The stage ordinal of an event: Queued, then the running statuses, then the
\* terminal ones.
StageOrdinal(event) ==
    LET tag == JsonField(event, "status") IN
    IF tag = <<"Queued">> THEN 0
    ELSE IF tag \in { <<"Processing">>, <<"Separating">>, <<"Analyzing">> } THEN 1
    ELSE 2

\* C2: the events of a stream are non-decreasing in stage ordinal and only the
\* last one may be terminal.  Every event a stream sends is at some state its
\* latest event, with the one sent before it: in every such pair the earlier
\* event is not terminal and its ordinal is at most that of the later one.
C2_StreamOrdered ==
    \A p \in Subscribers :
        subs[p].before # <<>>
            => /\ StageOrdinal(subs[p].before) <= StageOrdinal(subs[p].event)
               /\ StageOrdinal(subs[p].before) < 2

\* A stem stream that sent a running status and then Completed, and ended.
C2_Witness ==
    \E p \in Subscribers :
        /\ subs[p].state = "closed"
        /\ subs[p].kind = "stem"
        /\ JsonField(subs[p].event, "status") = <<"Completed">>
        /\ StageOrdinal(subs[p].before) = 1

\* ------------------------------------------------------------------- C3

\* C3: de-duplication.  No event of a stream equals the event sent before it,
\* and a sample that found the record as last sent has sent nothing: the
\* latest event is still the one last_status_json holds.
C3_Deduplicated ==
    \A p \in Subscribers :
        /\ subs[p].before # <<>> => subs[p].before # subs[p].event
        /\ subs[p].quiet > 0 => subs[p].event = subs[p].last /\ subs[p].last # <<>>

\* A stream sampled the same value twice in a row, after a change of value.
C3_Witness ==
    \E p \in Subscribers :
        /\ subs[p].state = "open"
        /\ subs[p].quiet > 0
        /\ subs[p].before # <<>>

\* ------------------------------------------------------------------- C4

\* The stream was opened on an identifier its store has no record of.
Unknown(s) == s.state \in {"open", "closed"} /\ s.id \notin DOMAIN Store(s.kind)

\* C4: a stream on an identifier never inserted into its store has sent nothing
\* while it is open (it has not sampled yet), and once it has sampled it is
\* closed, having sent the not-found event and no event before it.
C4_NotFoundOnce ==
    \A p \in Subscribers :
        Unknown(subs[p])
            => /\ subs[p].last = <<>>
               /\ subs[p].before = <<>>
               /\ subs[p].quiet = 0
               /\ IF subs[p].state = "open"
                  THEN subs[p].event = <<>>
                  ELSE subs[p].event = NotFoundEvent(subs[p].kind)

\* A stream on a never-issued identifier has sent its not-found event and ended,
\* while the store holds records of other identifiers.
C4_Witness ==
    \E p \in Subscribers :
        /\ subs[p].state = "closed"
        /\ subs[p].id = BogusId
        /\ subs[p].event = NotFoundEvent(subs[p].kind)
        /\ DOMAIN Store(subs[p].kind) # {}

\* ------------------------------------------------------------------- C5

DeclaredTags ==
    { <<"Queued">>, <<"Processing">>, <<"Separating">>, <<"Analyzing">>,
      <<"Completed">>, <<"Failed">> }

WireEvent(line) ==
    IF line = LineHalfway
    THEN << StemProgress(42, <<"H", "a", "l", "f", "w", "a", "y", " ", "d", "o", "n", "e">>) >>
    ELSE IF line = LineZero THEN << StemProgress(0, <<"L", "o", "a", "d">>) >>
    ELSE IF line = LineHundred THEN << StemProgress(100, <<"D", "o", "n", "e">>) >>
    ELSE IF line = LineColonStage THEN << StemProgress(7, <<"a", ":", "b">>) >>
    ELSE << >>

RECURSIVE WireEvents(_)
WireEvents(lines) ==
    IF lines = <<>> THEN <<>> ELSE WireEvent(Head(lines)) \o WireEvents(Tail(lines))

\* C6: every well-formed progress line the worker wrote has been relayed when
\* the relay loop has ended, whatever the interleaving of the reader thread,
\* the worker thread and the loop.
C6_NoProgressLost ==
    \A id \in AllIds, ph \in Phases :
        run[id][ph].outcomes # <<>>
            => \A i \in 1..Len(WireEvents(run[id][ph].wrote)) :
                   \E j \in 1..Len(run[id][ph].relayed) :
                       run[id][ph].relayed[j] = WireEvents(run[id][ph].wrote)[i]

\* ------------------------------------------------------------------- C7

C8_OnlyWellFormed == sent = WireEvents(fed)

\* ------------------------------------------------------------------- C9

\* The sub-range a phase's percent is mapped into.
RangeOf(phase) == IF phase = "mix" THEN << 5, 45 >> ELSE << 50, 90 >>

\* C9: the relay loop maps a percent p in 0..100 to lo + p*(hi-lo)/100 in whole
\* numbers, for [lo,hi] = [5,45] in the mix phase and [50,90] in the reference
\* phase: the value lies in [lo,hi], is lo at 0 and hi at 100, and a greater
\* percent never gives a smaller value.
C9_Rescaling ==
    LET lo == RangeOf(hphase)[1]
        hi == RangeOf(hphase)[2]
    IN \A i \in 1..Len(shown) :
           /\ shown[i].tag = "Separating"
           /\ shown[i].num = lo + (sent[i].progress * (hi - lo)) \div 100
           /\ lo <= shown[i].num /\ shown[i].num <= hi
           /\ sent[i].progress = 0 => shown[i].num = lo
           /\ sent[i].progress = 100 => shown[i].num = hi
           /\ \A j \in 1..Len(shown) :
                  sent[i].progress <= sent[j].progress => shown[i].num <= shown[j].num

\* The reference phase has relayed the percents 100 and then 7.
C9_Witness ==
    /\ hphase = "reference"
    /\ Len(shown) = 2
    /\ sent[1].progress = 100
    /\ sent[2].progress = 7

\* ------------------------------------------------------------------ C10

\* The message of the failure of a phase whose process ended with code.
ExitFailure(phase, code) ==
    Failed((IF phase = "mix" THEN <<"Mix separation failed: ">>
            ELSE <<"Reference separation failed: ">>)
           \o <<"stem separation failed with exit code: ">> \o DebugCode(code))

C12_ErrorFieldFails ==
    \A id \in AllIds, ph \in Phases :
        /\ run[id][ph].outcomes # <<>>
        /\ run[id][ph].proc = "exited"
        /\ run[id][ph].out.error # None
        => ~run[id][ph].outcomes[1].ok

\* ------------------------------------------------------------------ C13

\* A step of pipeline A of a submission: its task or its record changes.
StepOfA(j) == pa'[j] # pa[j] \/ Get(jobs', j) # Get(jobs, j)

\* A step of pipeline B of a submission: its task, one of its invocations or
\* its record changes.
StepOfB(k) == pb'[k] # pb[k] \/ run'[k] # run[k] \/ Get(stem_jobs', k) # Get(stem_jobs, k)

\* C13: once a submission has launched its two pipelines, a step of pipeline A
\* (its failure included) leaves stem_jobs and all of pipeline B as they are,
\* and a step of pipeline B leaves jobs and all of pipeline A as they are.
C13_Independent ==
    [][ \A r \in Requests :
          /\ req[r].pc = "returned"
          /\ req[r].job_id # BogusId
          /\ req[r].stem_job_id # BogusId
          => /\ StepOfA(req[r].job_id)
                 => stem_jobs' = stem_jobs /\ pb' = pb /\ run' = run
             /\ StepOfB(req[r].stem_job_id) => jobs' = jobs /\ pa' = pa ]_vars

\* The two pipelines of one submission have ended, the analysis failed and the
\* stem job Completed.
C13_Witness ==
    \E r \in Requests :
        /\ req[r].pc = "returned"
        /\ req[r].job_id \in DOMAIN jobs /\ req[r].stem_job_id \in DOMAIN stem_jobs
        /\ pa[req[r].job_id].pc = "done" /\ pb[req[r].stem_job_id].pc = "done"
        /\ jobs[req[r].job_id].tag = "Failed"
        /\ stem_jobs[req[r].stem_job_id].tag = "Completed"

\* ------------------------------------------------------------------ C14

\* C14: every identifier of a response has a record in its store, in the
\* state of the response and in every later one; a pipeline that has been
\* launched and has not run yet finds its record Queued; and a stream on an
\* identifier of a response, on the store it was issued for, has not sent the
\* not-found event.
C14_IssuedPresent ==
    /\ \A r \in Requests :
           req[r].pc = "returned"
               => /\ req[r].stem_job_id \in DOMAIN stem_jobs
                  /\ req[r].job_id # BogusId => req[r].job_id \in DOMAIN jobs
    /\ \A id \in AllIds :
           /\ pa[id].pc # "none" => id \in DOMAIN jobs
           /\ pa[id].pc = "start" => jobs[id] = Queued
           /\ pb[id].pc # "none" => id \in DOMAIN stem_jobs
           /\ pb[id].pc = "start" => stem_jobs[id] = Queued
    /\ \A p \in Subscribers, r \in Requests :
           /\ subs[p].state \in {"open", "closed"}
           /\ req[r].pc = "returned"
           /\ \/ subs[p].kind = "job" /\ subs[p].id = req[r].job_id /\ subs[p].id # BogusId
              \/ subs[p].kind = "stem" /\ subs[p].id = req[r].stem_job_id
           => subs[p].event # NotFoundEvent(subs[p].kind)

\* The handler has returned while both pipelines have yet to run, and a stream
\* on the job identifier has sent the Queued record.
C14_Witness ==
    \E r \in Requests, p \in Subscribers :
        /\ req[r].pc = "returned"
        /\ req[r].job_id # BogusId
        /\ pa[req[r].job_id].pc = "start"
        /\ pb[req[r].stem_job_id].pc = "start"
        /\ subs[p].kind = "job" /\ subs[p].id = req[r].job_id
        /\ subs[p].event = JobStatusJson(Queued)

\* ------------------------------------------------------------------ C15

\* C15: the two invocations of a stem job are sequential.  When the invocation
\* of the reference has been started, the process of the mix has exited and its
\* outcome was a success; the two processes are never running at the same time.
C15_Sequential ==
    \A id \in AllIds :
        /\ run[id]["reference"].handle # "none"
               => /\ run[id]["mix"].proc = "exited"
                  /\ run[id]["mix"].handle = "finished"
                  /\ pb[id].phase = "reference"
        /\ ~(run[id]["mix"].proc = "running" /\ run[id]["reference"].proc = "running")

\* The process of the reference is running, after the mix process exited with
\* code 0.
C15_Witness ==
    \E id \in AllIds :
        /\ run[id]["reference"].proc = "running"
        /\ run[id]["mix"].proc = "exited"
        /\ run[id]["mix"].code = Some(0)

\* ------------------------------------------------------------------ C16

\* C16: once an invocation of a stem job has reported a failure, every step
\* leaves the job not Completed, the only write to its record is Failed with
\* the message of that failure, the task is at the match on the outcome or
\* ended, no invocation is started or started again, and after a failure of
\* the mix the reference is never started.
C16_FailureTerminal ==
    [][ \A id \in AllIds, ph \in Phases :
          run[id][ph].outcomes # <<>> /\ ~run[id][ph].outcomes[1].ok
              => /\ id \in DOMAIN stem_jobs'
                 /\ stem_jobs'[id].tag # "Completed"
                 /\ stem_jobs'[id] # stem_jobs[id]
                        => stem_jobs'[id]
                               = Failed((IF ph = "mix"
                                         THEN <<"Mix separation failed: ">>
                                         ELSE <<"Reference separation failed: ">>)
                                        \o run[id][ph].outcomes[1].err)
                 /\ pb'[id].pc \in {"joined", "done"}
                 /\ run'[id][ph].outcomes = run[id][ph].outcomes
                 /\ \A q \in Phases : run'[id][q].handle = "none" <=> run[id][q].handle = "none"
                 /\ ph = "mix" => run'[id]["reference"] = NoRun ]_vars

\* The invocation of the reference failed after the mix succeeded, and the job
\* has ended Failed.
C16_Witness ==
    \E id \in DOMAIN stem_jobs :
        /\ run[id]["reference"].outcomes # <<>>
        /\ ~run[id]["reference"].outcomes[1].ok
        /\ pb[id].pc = "done"
        /\ stem_jobs[id].tag = "Failed"
        /\ pb[id].mix_stems # <<>>

\* ------------------------------------------------------------------ C17

\* C17: every write to the record of a launched pipeline A is one of these
\* steps.  Queued to Running(analysis); Running(analysis) to Running(report
\* generation), the analysis having given its metrics; Running(analysis) to
\* Failed with a message that begins "Analysis Error: ", no metrics given and
\* the report generator never asked; Running(report generation) to Completed
\* with the metrics and the report; Running(report generation) to Failed with a
\* message that begins "AI Error: ", no report given.
C17_AnalysisStages ==
    [][ \A id \in AllIds :
          pa[id].pc # "none" /\ Get(jobs', id) # Get(jobs, id)
              => /\ id \in DOMAIN jobs /\ id \in DOMAIN jobs'
                 /\ \/ /\ jobs[id] = Queued
                       /\ jobs'[id] = Processing(<<"Running Essentia Analysis...">>)
                    \/ /\ jobs[id] = Processing(<<"Running Essentia Analysis...">>)
                       /\ jobs'[id] = Processing(<<"Consulting AI Expert...">>)
                       /\ pa'[id].pc = "ai"
                       /\ pa'[id].metrics # <<>>
                    \/ /\ jobs[id] = Processing(<<"Running Essentia Analysis...">>)
                       /\ jobs'[id].tag = "Failed"
                       /\ Head(jobs'[id].text) = "Analysis Error: "
                       /\ pa'[id].pc = "done"
                       /\ pa'[id].metrics = <<>> /\ pa'[id].ai_text = <<>>
                    \/ /\ jobs[id] = Processing(<<"Consulting AI Expert...">>)
                       /\ jobs'[id] = JobCompleted(pa[id].metrics, pa'[id].ai_text)
                       /\ pa'[id].pc = "done"
                       /\ pa[id].metrics # <<>> /\ pa'[id].ai_text # <<>>
                    \/ /\ jobs[id] = Processing(<<"Consulting AI Expert...">>)
                       /\ jobs'[id].tag = "Failed"
                       /\ Head(jobs'[id].text) = "AI Error: "
                       /\ pa'[id].pc = "done"
                       /\ pa[id].metrics # <<>> /\ pa'[id].ai_text = <<>> ]_vars

\* The analysis succeeded, the report generator failed, and a stream of the job
\* has sent the announcement of the report generation and then the failure.
C17_Witness ==
    \E id \in DOMAIN jobs, p \in Subscribers :
        /\ pa[id].pc = "done"
        /\ pa[id].metrics # <<>>
        /\ jobs[id].tag = "Failed"
        /\ Head(jobs[id].text) = "AI Error: "
        /\ subs[p].id = id /\ subs[p].state = "closed"
        /\ subs[p].before = JobStatusJson(Processing(<<"Consulting AI Expert...">>))
        /\ subs[p].event = JobStatusJson(jobs[id])

\* ------------------------------------------------------------------ C18

\* C18: when the analysis and the report generator have succeeded, the step
\* that ends pipeline A writes Completed with the metrics and the report,
\* whichever of the three INSERTs left a row and whether or not a project was
\* given (without one no INSERT is run).
C18_PersistenceBestEffort ==
    [][ \A id \in AllIds :
          /\ pa[id].pc \in {"ai", "persist"}
          /\ pa'[id].pc = "done"
          /\ pa'[id].ai_text # <<>>
          => /\ jobs'[id] = JobCompleted(pa'[id].metrics, pa'[id].ai_text)
             /\ pa'[id].metrics # <<>>
             /\ pa'[id].rows \in PersistOutcomes
             /\ ~pa[id].project => pa'[id].rows = {} ]_vars

\* A job with a project is Completed although the INSERT into reference_tracks
\* failed after the one into mix_versions left its row.
C18_Witness ==
    \E id \in DOMAIN jobs :
        /\ pa[id].pc = "done"
        /\ pa[id].project
        /\ pa[id].rows = {"mix_versions"}
        /\ jobs[id].tag = "Completed"
        /\ \E v \in versions : v.id = id

\* ------------------------------------------------------------------ C19

\* C19: a step of a status stream (it is opened, samples, sends, ends, or its
\* client goes away) changes no record of either store, no handler, no
\* pipeline task, no invocation of the runner and no row of the database.
C19_StreamsReadOnly ==
    [][ subs' # subs
          => /\ jobs' = jobs /\ stem_jobs' = stem_jobs
             /\ pa' = pa /\ pb' = pb /\ run' = run
             /\ req' = req /\ versions' = versions /\ uuid_next' = uuid_next
             /\ dirs' = dirs ]_vars

\* The client of a stream has gone away and a stem job has gone on to Completed
\* with its worker processes exited.
C19_Witness ==
    \E p \in Subscribers, id \in DOMAIN stem_jobs :
        /\ subs[p].state = "dropped"
        /\ pb[id].pc = "done"
        /\ stem_jobs[id].tag = "Completed"
        /\ run[id]["reference"].proc = "exited"

\* ------------------------------------------------------------------ C20

\* C20: every write to a record is made by the one unit that owns its
\* identifier at that time.  A write to jobs[id] is made by the handler that
\* issued id, with pipeline A not launched before or by this step, or by the
\* task of pipeline A of id, launched and not ended, its handler returned.  A
\* write to stem_jobs[id] is made by the handler that issued id with pipeline B
\* not launched, or by the task of pipeline B outside its relay loop, or by the
\* relay closure on an event it received, while the task stays where it awaits
\* the closure.  No other step (worker thread, reader thread, stream) writes.
C20_SingleWriter ==
    [][ \A id \in AllIds :
          /\ Get(jobs', id) # Get(jobs, id)
                 => \/ /\ \E r \in Requests : req'[r] # req[r] /\ req'[r].job_id = id
                       /\ pa[id].pc = "none" /\ pa'[id].pc = "none"
                    \/ /\ req' = req
                       /\ \E r \in Requests : req[r].pc = "returned" /\ req[r].job_id = id
                       /\ pa[id].pc \notin {"none", "done"}
                       /\ pa'[id].pc # pa[id].pc
          /\ Get(stem_jobs', id) # Get(stem_jobs, id)
                 => \/ /\ \E r \in Requests : req'[r] # req[r] /\ req'[r].stem_job_id = id
                       /\ pb[id].pc = "none" /\ pb'[id].pc = "none"
                    \/ /\ req' = req
                       /\ \E r \in Requests : req[r].pc = "returned" /\ req[r].stem_job_id = id
                       /\ pb[id].pc \notin {"none", "done", "relay"}
                       /\ pb'[id].pc # pb[id].pc
                       /\ run'[id] = run[id] \/ pb[id].pc = "joined"
                    \/ /\ req' = req
                       /\ pb[id].pc = "relay" /\ pb'[id] = pb[id]
                       /\ run[id][pb[id].phase].rx
                       /\ run'[id][pb[id].phase].relayed # run[id][pb[id].phase].relayed ]_vars

\* One submission of start_analysis_job: the handler has written and returned,
\* pipeline A has written twice, and the relay closure of pipeline B has
\* written the progress of the mix.
C20_Witness ==
    \E r \in Requests :
        /\ req[r].pc = "returned"
        /\ req[r].job_id # BogusId
        /\ pa[req[r].job_id].pc = "ai"
        /\ pa[req[r].job_id].stem_job_id # None
        /\ pb[req[r].stem_job_id].pc = "relay"
        /\ run[req[r].stem_job_id]["mix"].relayed # <<>>
        /\ stem_jobs[req[r].stem_job_id]
               = RelayRecord("mix", run[req[r].stem_job_id]["mix"].relayed[1])

\* ------------------------------------------------------------------ C21

\* C21: while the stem pipeline of an identifier has been launched and has not
\* ended, the directories stems/<id>/mix and stems/<id>/reference are created
\* and removed by steps of that pipeline only: no step of a handler
\* (delete_version among them) or of another pipeline changes them.
C21_DirsOwned ==
    [][ \A id \in AllIds :
          pb[id].pc \notin {"none", "done"} /\ DirsOf(dirs', id) # DirsOf(dirs, id)
              => pb'[id] # pb[id] /\ versions' = versions /\ req' = req ]_vars

\* ------------------------------------------------------------------ C22

RECURSIVE ProgressEvents(_)
ProgressEvents(lines) ==
    IF lines = <<>> THEN <<>>
    ELSE ParseProgressLine(Head(lines)) \o ProgressEvents(Tail(lines))

\* C23: the events the relay loop of an invocation has received are, in order,
\* the first events of the progress lines the worker wrote: none is received
\* before one of an earlier line, none twice, none that was not written; and
\* while the loop runs the record of the job is the one of the event received
\* last.
C23_RelayFifo ==
    \A id \in AllIds, ph \in Phases :
        LET r == run[id][ph]
            evs == ProgressEvents(r.wrote)
        IN /\ Len(r.relayed) <= Len(evs)
           /\ r.relayed = SubSeq(evs, 1, Len(r.relayed))
           /\ r.chan = SubSeq(evs, Len(r.relayed) + 1, Len(r.relayed) + Len(r.chan))
           /\ pb[id].pc = "relay" /\ pb[id].phase = ph /\ r.relayed # <<>>
                  => stem_jobs[id] = RelayRecord(ph, r.relayed[Len(r.relayed)])

\* The worker of the reference wrote the line of 100 % and then the line of
\* 0 %, and the relay loop has received both events: the record shows 50.
C23_Witness ==
    \E id \in DOMAIN stem_jobs :
        /\ run[id]["reference"].wrote = << LineHundred, LineZero >>
        /\ Len(run[id]["reference"].relayed) = 2
        /\ pb[id].pc = "relay"
        /\ stem_jobs[id].num = 50

\* ------------------------------------------------------------------ C24

\* C24: every Separating record of stem_jobs holds a progress of at most
\* PercentMax (and, a u8, of at least 0), whatever lines the workers wrote.
C24_ProgressInRange ==
    \A id \in DOMAIN stem_jobs :
        stem_jobs[id].tag = "Separating"
            => 0 <= stem_jobs[id].num /\ stem_jobs[id].num <= PercentMax

\* ------------------------------------------------------------------ C25

\* C25: a closed progress channel is no failure.  The step in which the relay
\* loop finds the channel disconnected writes no record and hands the caller
\* the result of the worker thread, which is the result of the process that
\* exited (or the failure of its launch): Ok for a process that exited with
\* code 0 and a successful envelope.  The step that follows writes Failed
\* exactly when that result is an error.
C25_ClosedChannelNoFailure ==
    [][ \A id \in AllIds :
          LET ph == pb[id].phase IN
          /\ pb[id].pc = "relay" /\ pb'[id].pc = "joined" /\ pb'[id].left = "Disconnected"
                 => /\ stem_jobs' = stem_jobs
                    /\ run'[id][ph].outcomes = << run[id][ph].result >>
                    /\ run[id][ph].proc = "exited"
                           => run[id][ph].result
                                  = SeparationResult(run[id][ph].code, run[id][ph].out)
                    /\ run[id][ph].proc = "nolaunch" => run[id][ph].result = LaunchFailure
                    /\ /\ run[id][ph].proc = "exited"
                       /\ run[id][ph].code = Some(0)
                       /\ run[id][ph].out = SuccessEnvelope(ph)
                       => run'[id][ph].outcomes[1] = Ok(Some(StemsFor(ph)))
          /\ pb[id].pc = "joined" /\ pb[id].left = "Disconnected" /\ pb'[id] # pb[id]
                 => (stem_jobs'[id].tag = "Failed" <=> ~run[id][ph].outcomes[1].ok) ]_vars

\* The worker of the reference wrote nothing and exited with code 0: the loop
\* found the channel disconnected, the outcome was Ok, and the job went on to
\* the analysis of the stems.
C25_Witness ==
    \E id \in DOMAIN stem_jobs :
        /\ pb[id].pc = "joined"
        /\ pb[id].phase = "reference"
        /\ pb[id].left = "Disconnected"
        /\ run[id]["reference"].wrote = <<>>
        /\ run[id]["reference"].relayed = <<>>
        /\ run[id]["reference"].outcomes = << Ok(Some(ReferenceStems)) >>

\* ------------------------------------------------------------------ C26

\* C26: a stream that is open on a record that is Completed or Failed and whose
\* client stays sends that record and ends; and when it had sent nothing before
\* (it was opened on a record already terminal) that event is the only one it
\* sends.
C26_StreamLive ==
    \A p \in Subscribers :
        /\ (/\ subs[p].state = "open"
            /\ subs[p].id \in DOMAIN Store(subs[p].kind)
            /\ IsTerminal(Store(subs[p].kind)[subs[p].id]))
           ~> \/ subs[p].state = "dropped"
              \/ /\ subs[p].state = "closed"
                 /\ subs[p].id \in DOMAIN Store(subs[p].kind)
                 /\ subs[p].event = StatusJson(subs[p].kind, Store(subs[p].kind)[subs[p].id])
        /\ (/\ subs[p].state = "open"
            /\ subs[p].last = <<>>
            /\ subs[p].id \in DOMAIN Store(subs[p].kind)
            /\ IsTerminal(Store(subs[p].kind)[subs[p].id]))
           ~> \/ subs[p].state = "dropped"
              \/ /\ subs[p].state = "closed"
                 /\ subs[p].id \in DOMAIN Store(subs[p].kind)
                 /\ subs[p].event = StatusJson(subs[p].kind, Store(subs[p].kind)[subs[p].id])
                 /\ subs[p].before = <<>>

\* A stream opened on a job that was Completed already has sent that one event
\* and ended.
C26_Witness ==
    \E p \in Subscribers :
        /\ subs[p].state = "closed"
        /\ subs[p].kind = "job"
        /\ subs[p].id \in DOMAIN jobs
        /\ jobs[subs[p].id].tag = "Completed"
        /\ subs[p].event = JobStatusJson(jobs[subs[p].id])
        /\ subs[p].before = <<>>

\* ------------------------------------------------------------------ C27

\* C27: every pipeline that has been launched ends with a terminal record,
\* given that every worker process ends, every collaborator call returns and
\* every task and thread is scheduled: the analysis task ends with its job
\* Completed or Failed, the stem task with its stem job Completed or Failed, and
\* a relay loop that has been entered is left.
C27_PipelinesTerminate ==
    \A id \in AllIds :
        /\ (pa[id].pc # "none")
               ~> (pa[id].pc = "done" /\ id \in DOMAIN jobs /\ IsTerminal(jobs[id]))
        /\ (pb[id].pc # "none")
               ~> (pb[id].pc = "done" /\ id \in DOMAIN stem_jobs /\ IsTerminal(stem_jobs[id]))
        /\ (pb[id].pc = "relay") ~> (pb[id].pc = "joined")

\* Both pipelines of a submission have ended, the stem job Completed after a
\* relay loop of the reference that relayed an event.
C27_Witness ==
    \E r \in Requests :
        /\ req[r].pc = "returned"
        /\ pa[req[r].job_id].pc = "done"
        /\ pb[req[r].stem_job_id].pc = "done"
        /\ IsTerminal(jobs[req[r].job_id])
        /\ stem_jobs[req[r].stem_job_id].tag = "Completed"
        /\ run[req[r].stem_job_id]["reference"].relayed # <<>>

\* ------------------------------------------------------------------ C28

\* The values written to jobs[id] so far, in the order of the writes, as the
\* record tells them: the handler inserts Queued (and, without the two files,
\* Failed after it); process_analysis writes the announcement of the analysis,
\* then its failure or the announcement of the report, then Completed or the
\* failure of the report.
JobWrites(id) ==
    IF id \notin DOMAIN jobs THEN <<>>
    ELSE LET st == jobs[id]
             analysis == Processing(<<"Running Essentia Analysis...">>)
             report == Processing(<<"Consulting AI Expert...">>)
         IN IF st = Queued THEN << Queued >>
            ELSE IF st = analysis THEN << Queued, analysis >>
            ELSE IF st = report THEN << Queued, analysis, report >>
            ELSE IF st = Failed(<<"Missing mix or reference file">>) THEN << Queued, st >>
            ELSE IF st.tag = "Failed" /\ Head(st.text) = "Analysis Error: "
            THEN << Queued, analysis, st >>
            ELSE << Queued, analysis, report, st >>

C29_PayloadAggregates ==
    \A id \in DOMAIN stem_jobs :
        stem_jobs[id].tag = "Completed"
            => /\ \A i \in 1..Len(pb[id].mix_stems) :
                      \E j \in 1..Len(stem_jobs[id].payload) :
                          stem_jobs[id].payload[j] = pb[id].mix_stems[i]
               /\ run[id]["reference"].result.ok /\ run[id]["reference"].result.val # None
                      => \A i \in 1..Len(run[id]["reference"].result.val[1]) :
                             \E j \in 1..Len(stem_jobs[id].payload) :
                                 stem_jobs[id].payload[j]
                                     = run[id]["reference"].result.val[1][i]

\* ------------------------------------------------------------------ C30

\* C30: a worker that cannot be launched, and a worker that exits 0 with a
\* standard output that is no envelope, fail the job that owns them and never
\* complete it.  An invocation of the stem pipeline whose process was not
\* launched has the launch failure as its result, no reader thread and no
\* event; the relay loop waiting on it can leave by the Disconnected arm only,
\* leaves by it, and hands the launch failure back; the job ends Failed with
\* that error and is never Completed.  An invocation whose process exited 0
\* with an output that is no envelope has the parse failure as its result, and
\* its job ends Failed with it and is never Completed.  analyze_pair gives the
\* launch failure for a worker not launched and the parse failure for an exit 0
\* without the envelope, and a Completed analysis job holds the metrics of an
\* output that parsed.
C30_LaunchAndParseFail ==
    /\ \A id \in AllIds :
          LET ph == pb[id].phase
              r == run[id][ph]
              prefix == IF ph = "mix" THEN <<"Mix separation failed: ">>
                        ELSE <<"Reference separation failed: ">>
          IN /\ r.proc = "nolaunch"
                  => /\ r.handle = "finished" /\ r.result = LaunchFailure
                     /\ r.reader = "none" /\ r.chan = <<>> /\ r.relayed = <<>>
                     /\ id \in DOMAIN stem_jobs => stem_jobs[id].tag # "Completed"
                     /\ pb[id].pc = "relay"
                            => ENABLED Relay_Disconnected(id) /\ ~ENABLED Relay_Timeout(id)
                     /\ pb[id].pc = "joined"
                            => pb[id].left = "Disconnected" /\ r.outcomes = <<LaunchFailure>>
                     /\ pb[id].pc \in {"relay", "joined", "done"}
                     /\ pb[id].pc = "done"
                            => stem_jobs[id] = Failed(prefix \o LaunchFailure.err)
             /\ r.handle = "finished" /\ r.proc = "exited" /\ r.code = Some(0)
                  /\ (~r.out.json \/ r.out.success = None)
                  => /\ ~r.result.ok
                     /\ r.result.err = <<"Failed to parse JSON output: ", JsonErrorText(r.out),
                                          " (Output: ", r.out.raw, ")">>
                     /\ id \in DOMAIN stem_jobs => stem_jobs[id].tag # "Completed"
                     /\ pb[id].pc = "joined" => r.outcomes = <<r.result>>
                     /\ pb[id].pc \in {"relay", "joined", "done"}
                     /\ pb[id].pc = "done"
                            => stem_jobs[id] = Failed(prefix \o r.result.err)
    /\ \A code \in ExitCodes, out \in AnalysisOutputs :
          AnalyzePair(FALSE, code, "Traceback", out) = LaunchFailure
    /\ ~LaunchFailure.ok
    /\ \A out \in AnalysisOutputs :
          ~out.json \/ out.mix = None \/ out.reference = None
              => LET res == AnalyzePair(TRUE, Some(0), "Traceback", out)
                 IN /\ ~res.ok
                    /\ res.err = <<"Failed to parse JSON output: ", JsonErrorText(out),
                                   " (Output: ", out.raw, ")">>
    /\ \A id \in DOMAIN jobs :
          jobs[id].tag = "Completed"
              => \E out \in AnalysisOutputs :
                     /\ out.json /\ out.mix # None /\ out.reference # None
                     /\ pa[id].metrics = << <<"mix", out.mix[1]>>,
                                            <<"reference", out.reference[1]>> >>

\* The analysis worker exited 0 and printed "Traceback": its job has ended
\* Failed with the parse failure.  The separation of the mix of the same
\* submission could not be launched: the relay loop has left by the
\* Disconnected arm with the launch failure.
C30_Witness ==
    \E r \in Requests :
        /\ req[r].pc = "returned"
        /\ req[r].job_id # BogusId
        /\ jobs[req[r].job_id]
               = Failed(<<"Analysis Error: ", "Failed to parse JSON output: ", "expected value",
                          " (Output: ", "Traceback", ")">>)
        /\ run[req[r].stem_job_id]["mix"].proc = "nolaunch"
        /\ pb[req[r].stem_job_id].pc = "joined"
        /\ pb[req[r].stem_job_id].left = "Disconnected"
        /\ run[req[r].stem_job_id]["mix"].outcomes = <<LaunchFailure>>

\* ------------------------------------------------------------------ C31

\* C31: the two store locks cannot deadlock.  A task that holds both locks is
\* start_analysis_job in its missing-files branch, and it took jobs before
\* stem_jobs; no task that holds stem_jobs goes on to lock jobs; a task that
\* holds one lock outside that branch is inside a section that is lock, one
\* map operation, unlock; no task holds a lock at an .await, a spawn, a return
\* or its end; a task that waits for a lock waits for a holder whose next
\* statement can run, or for a holder that waits in turn for a third task
\* whose next statement can run; and while a task has statements left some
\* statement can run.
C31_LocksCannotDeadlock ==
    LET Tasks == DOMAIN Programs
        Ins(t, i) == IF i >= 1 /\ i <= Len(Programs[t]) THEN Programs[t][i] ELSE <<"end">>
        Nxt(t) == Ins(t, cs[t].pc)
        Holds(t, l) == \E i \in 1..Len(cs[t].held) : cs[t].held[i] = l
        Waits(t) == Nxt(t)[1] = "lock" /\ \E w \in Tasks : Holds(w, Nxt(t)[2])
        Runs(t) == ~Waits(t) /\ ENABLED (CS_Lock(t) \/ CS_Operate(t) \/ CS_Unlock(t))
        Missing == Section("missing", 1, Queued)
        InMissing(t) ==
            /\ t = "start_analysis_job"
            /\ \E k \in 1..Len(Missing) :
                  /\ Nxt(t) = Missing[k]
                  /\ \A j \in 1..k : Ins(t, cs[t].pc - k + j) = Missing[j]
    IN /\ \A t \in Tasks :
             Len(cs[t].held) = 2 => InMissing(t) /\ cs[t].held = <<"jobs", "stem_jobs">>
       /\ \A t \in Tasks :
             Holds(t, "stem_jobs") => ~(Nxt(t)[1] = "lock" /\ Nxt(t)[2] = "jobs")
       /\ \A t \in Tasks :
             Len(cs[t].held) = 1 /\ ~InMissing(t)
                 => LET l == cs[t].held[1] IN
                    \/ /\ Ins(t, cs[t].pc - 1) = <<"lock", l>>
                       /\ Nxt(t)[1] \in {"insert", "get"} /\ Nxt(t)[2] = l
                       /\ Ins(t, cs[t].pc + 1) = <<"unlock", l>>
                    \/ /\ Ins(t, cs[t].pc - 2) = <<"lock", l>>
                       /\ Ins(t, cs[t].pc - 1)[1] \in {"insert", "get"}
                       /\ Nxt(t) = <<"unlock", l>>
       /\ \A t \in Tasks :
             cs[t].held # <<>> => Nxt(t)[1] \in {"lock", "insert", "get", "unlock"}
       /\ \A t \in Tasks, u \in Tasks :
             Waits(t) /\ Holds(u, Nxt(t)[2])
                 => /\ u # t
                    /\ \/ Runs(u)
                       \/ /\ Waits(u)
                          /\ \A v \in Tasks :
                                Holds(v, Nxt(u)[2]) => v # t /\ v # u /\ Runs(v)
       /\ (\E t \in Tasks : cs[t].pc <= Len(Programs[t])) => ENABLED NextLocks

\* start_analysis_job holds both locks in its missing-files branch, jobs taken
\* first, while the stem pipeline of the other submission waits for stem_jobs
\* and the job stream for jobs.
C31_Witness ==
    /\ cs["start_analysis_job"].held = <<"jobs", "stem_jobs">>
    /\ 1 \in DOMAIN jobs /\ jobs[1] = Failed(<<"Missing mix or reference file">>)
    /\ cs["process_stem_separation"].pc <= Len(Programs["process_stem_separation"])
    /\ Programs["process_stem_separation"][cs["process_stem_separation"].pc]
           = <<"lock", "stem_jobs">>
    /\ cs["job_status_stream"].pc <= Len(Programs["job_status_stream"])
    /\ Programs["job_status_stream"][cs["job_status_stream"].pc] = <<"lock", "jobs">>

\* ------------------------------------------------------------------ C32

\* C32: once the record of 50 % that starts the separation of the reference is
\* written, nothing of the progress of the mix reaches the job.  In every step
\* taken while the pipeline serves the reference: a record written to the job
\* is no record of a progress event of the mix (no stage that begins "Mix: ");
\* the channel of the mix stays without receiver and empty; what the reader of
\* the mix sends for a line it reads in that step is lost, the step changing
\* neither store nor the invocation of the reference; and the events the relay
\* loop has received are the first of those the worker of the reference wrote.
C32_NoMixLeak ==
    [][ \A id \in AllIds :
          pb[id].phase = "reference"
              => /\ id \in DOMAIN stem_jobs' /\ Get(stem_jobs', id) # Get(stem_jobs, id)
                     => /\ ~(/\ stem_jobs'[id].tag = "Separating"
                             /\ stem_jobs'[id].text # <<>>
                             /\ stem_jobs'[id].text[1] = "Mix: ")
                        /\ \A line \in WorkerLines :
                               \A i \in 1..Len(ParseProgressLine(line)) :
                                   stem_jobs'[id] # RelayRecord("mix", ParseProgressLine(line)[i])
                 /\ run'[id]["mix"].chan = <<>>
                 /\ ~run'[id]["mix"].rx
                 /\ run'[id]["mix"].late > run[id]["mix"].late
                     => /\ stem_jobs' = stem_jobs /\ jobs' = jobs /\ pb' = pb
                        /\ run'[id]["reference"] = run[id]["reference"]
                 /\ LET r == run'[id]["reference"]
                        evs == ProgressEvents(r.wrote)
                    IN /\ Len(r.relayed) <= Len(evs)
                       /\ r.relayed = SubSeq(evs, 1, Len(r.relayed)) ]_vars

\* The reader of the mix has read a line after the relay loop of the mix had
\* ended, and the record of the job is one of the progress of the reference.
C32_Witness ==
    \E id \in DOMAIN stem_jobs :
        /\ pb[id].phase = "reference"
        /\ run[id]["mix"].late > 0
        /\ stem_jobs[id].tag = "Separating"
        /\ stem_jobs[id].text # <<>>
        /\ stem_jobs[id].text[1] = "Reference: "

\* ------------------------------------------------------------------ C33

\* C33: a submission without the mix or the reference file starts no pipeline
\* and no worker, fails both of its records straight from Queued, returns both
\* identifiers, and its records stay as they are.  The step into the
\* missing-files branch takes the record of the job from Queued to Failed and
\* leaves the stem record Queued; the step out of it takes the stem record from
\* Queued to Failed and returns the response with the two identifiers issued;
\* neither step starts a task or an invocation; and from then on no step
\* changes either record, starts a pipeline for either identifier or starts a
\* worker for them.
C33_MissingFilesFail ==
    [][ \A r \in Requests :
          LET jid == req[r].job_id
              sid == req[r].stem_job_id
              Idle == /\ pa'[jid] = NoTaskA /\ pa'[sid] = NoTaskA
                      /\ pb'[jid] = NoTaskB /\ pb'[sid] = NoTaskB
                      /\ \A ph \in Phases : run'[jid][ph] = NoRun /\ run'[sid][ph] = NoRun
          IN /\ req[r].pc = "saj_upload" /\ req'[r].pc = "saj_missing"
                 => /\ jobs[jid] = Queued
                    /\ jobs'[jid] = Failed(<<"Missing mix or reference file">>)
                    /\ stem_jobs[sid] = Queued /\ stem_jobs'[sid] = Queued
                    /\ Idle
             /\ req[r].pc = "saj_missing"
                 => /\ Idle
                    /\ jobs'[jid] = jobs[jid]
                    /\ \/ req'[r] = req[r] /\ stem_jobs'[sid] = stem_jobs[sid]
                       \/ /\ req'[r] = [req[r] EXCEPT !.pc = "returned"]
                          /\ stem_jobs[sid] = Queued
                          /\ stem_jobs'[sid] = Failed(<<"Missing files">>)
                          /\ jid # BogusId /\ sid # BogusId /\ jid # sid
             /\ (/\ req[r].pc = "returned"
                 /\ jid # BogusId
                 /\ jobs[jid] = Failed(<<"Missing mix or reference file">>))
                 => /\ Idle
                    /\ req'[r] = req[r]
                    /\ jobs'[jid] = jobs[jid]
                    /\ stem_jobs[sid] = Failed(<<"Missing files">>)
                    /\ stem_jobs'[sid] = stem_jobs[sid] ]_vars

\* The response of a submission without its files has been returned, both
\* records are Failed, no task and no invocation exists for either identifier,
\* and the stream opened on the stem record has sent the failure and ended.
C33_Witness ==
    \E r \in Requests, p \in Subscribers :
        /\ req[r].pc = "returned"
        /\ req[r].job_id # BogusId
        /\ jobs[req[r].job_id] = Failed(<<"Missing mix or reference file">>)
        /\ stem_jobs[req[r].stem_job_id] = Failed(<<"Missing files">>)
        /\ pa[req[r].job_id] = NoTaskA
        /\ pb[req[r].stem_job_id] = NoTaskB
        /\ subs[p].kind = "stem" /\ subs[p].id = req[r].stem_job_id
        /\ subs[p].state = "closed"
        /\ subs[p].event = StemJobStatusJson(Failed(<<"Missing files">>))

====
